---- MODULE Spec2Model ----
(***************************************************************************)
(* Krita Work Timer: the timer state machine (timer_manager.py) and the    *)
(* confidence model (cognitive_profile.py).                                *)
(*                                                                         *)
(* Real-valued quantities (confidence, rates, factors) are fixed-point     *)
(* integers with Scale units per 1.0.  Time is counted in firings of the   *)
(* one-second tick timer.                                                  *)
(***************************************************************************)
EXTENDS Integers, Sequences, FiniteSets, TLC

----------------------------------------------------------------------------
(* Bounds of the exploration *)

\* profile method calls explored in one behaviour
MaxOps == 2
\* sessions counted for one project before the exploration stops adding more
MaxSessions == 1
\* focus losses counted before the exploration stops adding more
MaxFocusLost == 1
\* number of tick-timer firings explored in one behaviour
MaxTicks == 2
\* how far below T_limit*60 a part-way pause may start
NearLimit == 1
\* record_validation calls explored in one behaviour that starts from an
\* empty profile
MaxSamples == 56
\* the first calls of such a behaviour, whose inputs are arbitrary
FreeSamples == 3
\* after them the input changes only at every SampleRun-th call
SampleRun == 25

(* Fixed-point scale: Scale units are 1.0 *)
Scale == 10000

----------------------------------------------------------------------------
(* Enumerations *)

TimerState == {"STOPPED", "RUNNING", "BUFFER", "PAUSED", "COGNITIVE_CHECK"}

ConfidenceDecision == {"AUTO_ACCEPT", "AUTO_DISCARD", "ASK_USER"}

\* Python's None
None == <<>>

----------------------------------------------------------------------------
(* CognitiveProfile constants *)

\* CognitiveProfile.BUCKET_RANGES
BUCKET_RANGES == << <<0, 180>>, <<180, 420>>, <<420, 900>>, <<900, 1500>>,
                    <<1500, 3600>> >>

\* the keys f"{min_sec}-{max_sec}" of CognitiveProfile._buckets
BucketKeyOf(range) ==
    CASE range = <<0, 180>> -> "0-180"
      [] range = <<180, 420>> -> "180-420"
      [] range = <<420, 900>> -> "420-900"
      [] range = <<900, 1500>> -> "900-1500"
      [] range = <<1500, 3600>> -> "1500-3600"

BucketKeys == {BucketKeyOf(BUCKET_RANGES[i]) : i \in DOMAIN BUCKET_RANGES}

\* 0.85, 0.20 and 0.95 in Scale units
AUTO_ACCEPT_THRESHOLD == (85 * Scale) \div 100
AUTO_DISCARD_THRESHOLD == (20 * Scale) \div 100
DECAY_FACTOR == (95 * Scale) \div 100
MIN_SAMPLES_FOR_AUTO == 10
TRUST_LEVEL_HIGH == (8 * Scale) \div 10
\* CognitiveProfile._max_recent_pauses
MaxRecentPauses == 100
\* the cap on _repeated_rejection_patterns
MaxRejectionPatterns == 20

PausePattern == {"MICRO_THINKING", "PLANNING_PAUSE", "CONTEXT_SWITCH",
                 "BREAK", "UNKNOWN"}

\* a project_hash of None
NoProject == "None"

----------------------------------------------------------------------------
(* Inputs *)

\* confidences a decision callback may hand back
ConfidenceSamples == {1000, 9000}
\* values assigned to t_limit_minutes
TLimitInputs == {10, 30}
\* values passed to set_total_seconds
TotalInputs == {-1, 5}
\* totals and T_limits of a pause that is already under way
StartTotals == {3}
StartLimits == {20}

\* idle durations handed to the profile, in seconds
IdleInputs == {90, 600, 2000, 4000}
ProjectInputs == {NoProject, "p1"}
\* session ages in minutes and local hours at which confidence is computed
SessionAges == {0, 45}
Hours == {3, 10, 12}
\* values passed to set_user_bias, in Scale units
BiasInputs == {-2 * Scale, Scale}
\* contents of _activity_bursts left by record_activity: no burst, or one
\* 30-second window with 48 pulses
BurstSamples ==
    { <<>>,
      <<[timestamp |-> 1000, duration_seconds |-> 31,
         intensity |-> (48 * Scale) \div 60, event_count |-> 48]>> }

\* stored profiles handed to from_dict
DictSamples ==
    << \* nine validated short pauses, full bias, implicit trust
       [buckets |-> ("0-180" :> [total |-> 9, validated |-> 9]),
        total_validations |-> 9,
        longest_validated_streak |-> 9,
        user_bias |-> Scale,
        implicit_trust_enabled |-> TRUE],
       \* seventeen samples, keys missing, an unknown bucket, a project
       [buckets |-> ("0-180" :> [total |-> 12, validated |-> 12])
                    @@ ("1500-3600" :> [total |-> 5])
                    @@ ("3600-7200" :> [total |-> 1, validated |-> 1]),
        total_validations |-> 12,
        total_rejections |-> 5,
        user_bias |-> 3 * Scale,
        project_modifiers |->
            ("p1" :> [total_validations |-> 3, total_work_time |-> 40000])],
       \* one sample short of the decay step
       [buckets |-> ("0-180" :> [total |-> 30, validated |-> 20])
                    @@ ("1500-3600" :> [total |-> 19, validated |-> 0]),
        total_validations |-> 20,
        total_rejections |-> 29],
       \* sixty validated short pauses in a row (three of them decayed
       \* away at the fiftieth), implicit trust
       [buckets |-> ("0-180" :> [total |-> 57, validated |-> 57]),
        total_validations |-> 60,
        longest_validated_streak |-> 60,
        implicit_trust_enabled |-> TRUE] >>

----------------------------------------------------------------------------
VARIABLES
    state,                \* TimerManager._state
    total_seconds,        \* TimerManager._total_seconds
    buffer_seconds,       \* TimerManager._buffer_seconds
    idle_seconds,         \* TimerManager._idle_seconds
    t_limit_minutes,      \* TimerManager._t_limit_minutes
    has_callback,         \* TimerManager._cognitive_decision_callback is set
    last_auto_decision,   \* TimerManager._last_auto_decision
    tick_timer,           \* TimerManager._tick_timer is active
    buffer_timer,         \* TimerManager._buffer_timer is active
    signals,              \* signals emitted by the last handler, in order
    call,                 \* the last handler run, its inputs and return value
    ticks,                \* tick-timer firings so far
    paused_ticks,         \* tick-timer firings since PAUSED was entered
    buckets,              \* CognitiveProfile._buckets: key -> counts
    recent_pauses,        \* CognitiveProfile._recent_pauses
    activity_bursts,      \* CognitiveProfile._activity_bursts
    session_started,      \* CognitiveProfile._session_start_time > 0
    consecutive_validated,    \* CognitiveProfile._consecutive_validated
    consecutive_rejected,     \* CognitiveProfile._consecutive_rejected
    project_modifiers,    \* CognitiveProfile._project_modifiers
    total_validations,    \* CognitiveProfile._total_validations
    total_rejections,     \* CognitiveProfile._total_rejections
    longest_validated_streak, \* CognitiveProfile._longest_validated_streak
    current_streak,       \* CognitiveProfile._current_streak
    focus_lost_count,     \* CognitiveProfile._focus_lost_count, in halves
    repeated_rejection_patterns,
                          \* CognitiveProfile._repeated_rejection_patterns
    user_bias,            \* CognitiveProfile._user_bias, in Scale units
    implicit_trust_enabled,   \* CognitiveProfile._implicit_trust_enabled
    ops,                  \* profile methods called so far
    stored_t_limit,       \* WorkTimerStorage._data["settings"]["t_limit_minutes"]
    cognitive_dialog,     \* WorkTimerExtension._cognitive_dialog is set
    cognitive_notification,
                          \* WorkTimerExtension._cognitive_notification is set
    last_activity_time,   \* WorkTimerExtension._last_activity_time: 0 or later
    current_doc_id,       \* WorkTimerExtension._current_doc_id is set
    current_file_hash     \* WorkTimerExtension._current_file_hash

timerVars == <<state, total_seconds, buffer_seconds, idle_seconds,
               t_limit_minutes, has_callback, last_auto_decision,
               tick_timer, buffer_timer, signals, call, ticks, paused_ticks>>

profileVars == <<buckets, recent_pauses, activity_bursts, session_started,
                 consecutive_validated, consecutive_rejected,
                 project_modifiers, total_validations, total_rejections,
                 longest_validated_streak, current_streak, focus_lost_count,
                 repeated_rejection_patterns, user_bias,
                 implicit_trust_enabled>>

\* the timer's own fields
timerCore == <<state, total_seconds, buffer_seconds, idle_seconds,
               t_limit_minutes, has_callback, last_auto_decision,
               tick_timer, buffer_timer, ticks, paused_ticks>>

\* the extension's storage setting and dialog
extensionVars == <<stored_t_limit, cognitive_dialog, cognitive_notification,
                   last_activity_time, current_doc_id, current_file_hash>>

vars == <<timerVars, profileVars, ops, extensionVars>>

----------------------------------------------------------------------------
(* Helpers *)

Max(a, b) == IF a >= b THEN a ELSE b
Min(a, b) == IF a <= b THEN a ELSE b

\* TimerManager.t_limit_minutes setter
ClampTLimit(value) == Max(15, Min(25, value))

\* idle limit in seconds, as compared in on_activity_detected and _on_tick
TLimitSeconds(minutes) == minutes * 60

\* TimerManager._set_state: the signal is emitted only on a change
StateChanged(old, new) ==
    IF old # new THEN <<[sig |-> "state_changed", state |-> new]>> ELSE <<>>

TimeUpdated(t) == <<[sig |-> "time_updated", total |-> t]>>

CheckNeeded(idle, conf, dec) ==
    <<[sig |-> "cognitive_check_needed", idle |-> idle,
       confidence |-> conf, decision |-> dec]>>

AutoDecided(acc, secs, conf) ==
    <<[sig |-> "cognitive_auto_decided", accepted |-> acc,
       seconds |-> secs, confidence |-> conf]>>

\* the record of a handler run: its name, what the decision callback
\* returned (decision, confidence, and flag when it was called), a boolean
\* argument (flag), other arguments, the return value, and the state, total,
\* idle seconds and undo slot the handler started from
Call(op) == [op |-> op, decision |-> "", confidence |-> 0, flag |-> FALSE,
             arg |-> None, ret |-> None,
             from |-> state, total |-> total_seconds,
             idle |-> idle_seconds, prev |-> last_auto_decision]

----------------------------------------------------------------------------
(* Initial states *)

\* TimerManager.__init__
TimerConstructed ==
    /\ state = "STOPPED"
    /\ total_seconds = 0
    /\ buffer_seconds = 0
    /\ idle_seconds = 0
    /\ t_limit_minutes = 20
    /\ has_callback = FALSE
    /\ last_auto_decision = None
    /\ tick_timer = FALSE
    /\ buffer_timer = FALSE
    /\ signals = <<>>
    /\ call = Call("init")
    /\ ticks = 0
    /\ paused_ticks = 0

\* A pause under way: the timer was started, ran for total_seconds ticks,
\* on_activity_stopped and the buffer expiry put it in PAUSED, and the tick
\* timer has fired idle_seconds times since, with no pulse.
TimerPaused ==
    /\ state = "PAUSED"
    /\ total_seconds \in StartTotals
    /\ buffer_seconds = 0
    /\ t_limit_minutes \in StartLimits
    /\ idle_seconds \in (TLimitSeconds(t_limit_minutes) - NearLimit)
                            .. TLimitSeconds(t_limit_minutes)
    /\ has_callback \in BOOLEAN
    /\ last_auto_decision = None
    /\ tick_timer = TRUE
    /\ buffer_timer = FALSE
    /\ signals = <<>>
    /\ call = Call("init")
    /\ ticks = 0
    /\ paused_ticks = idle_seconds

\* IdleBucket(min_seconds, max_seconds) with its default counts
EmptyBucket == [total_count |-> 0, validated_count |-> 0]

\* CognitiveProfile.__init__ and _init_buckets; bursts is the content of
\* _activity_bursts
ProfileConstructed(bursts) ==
    /\ buckets = [k \in BucketKeys |-> EmptyBucket]
    /\ recent_pauses = <<>>
    /\ activity_bursts = bursts
    /\ session_started = FALSE
    /\ consecutive_validated = 0
    /\ consecutive_rejected = 0
    /\ project_modifiers = <<>>
    /\ total_validations = 0
    /\ total_rejections = 0
    /\ longest_validated_streak = 0
    /\ current_streak = 0
    /\ focus_lost_count = 0
    /\ repeated_rejection_patterns = <<>>
    /\ user_bias = 0
    /\ implicit_trust_enabled = FALSE

\* WorkTimerStorage.__init__ with no stored settings, and no dialog shown
ExtensionConstructed ==
    /\ stored_t_limit = 20
    /\ cognitive_dialog = FALSE
    /\ cognitive_notification = FALSE
    /\ last_activity_time = 0
    /\ current_doc_id = FALSE
    /\ current_file_hash = NoProject

Init ==
    /\ TimerConstructed \/ TimerPaused
    /\ ProfileConstructed(<<>>)
    /\ ops = 0
    /\ ExtensionConstructed

----------------------------------------------------------------------------
(* TimerManager operations *)

\* t_limit_minutes = value
SetTLimit ==
    \E value \in TLimitInputs :
        /\ t_limit_minutes' = ClampTLimit(value)
        /\ signals' = <<>>
        /\ call' = Call("set_t_limit")
        /\ UNCHANGED <<state, total_seconds, buffer_seconds, idle_seconds,
                       has_callback, last_auto_decision, tick_timer,
                       buffer_timer, ticks, paused_ticks>>

SetCognitiveDecisionCallback ==
    \E present \in BOOLEAN :
        /\ has_callback' = present
        /\ signals' = <<>>
        /\ call' = [Call("set_cognitive_decision_callback")
                        EXCEPT !.flag = present]
        /\ UNCHANGED <<state, total_seconds, buffer_seconds, idle_seconds,
                       t_limit_minutes, last_auto_decision, tick_timer,
                       buffer_timer, ticks, paused_ticks>>

SetTotalSeconds ==
    \E seconds \in TotalInputs :
        /\ total_seconds' = Max(0, seconds)
        /\ signals' = TimeUpdated(total_seconds')
        /\ call' = Call("set_total_seconds")
        /\ UNCHANGED <<state, buffer_seconds, idle_seconds, t_limit_minutes,
                       has_callback, last_auto_decision, tick_timer,
                       buffer_timer, ticks, paused_ticks>>

Start ==
    /\ IF state = "STOPPED"
       THEN /\ state' = "RUNNING"
            /\ tick_timer' = TRUE
            /\ signals' = StateChanged(state, "RUNNING")
       ELSE /\ UNCHANGED <<state, tick_timer>>
            /\ signals' = <<>>
    /\ call' = Call("start")
    /\ UNCHANGED <<total_seconds, buffer_seconds, idle_seconds,
                   t_limit_minutes, has_callback, last_auto_decision,
                   buffer_timer, ticks, paused_ticks>>

\* ghost: firings since PAUSED was entered, kept only while PAUSED
LeavePaused == paused_ticks' = 0

\* mutant: the tick timer is left running
StopEffect_KeepsTicking ==
    /\ tick_timer' = tick_timer
    /\ buffer_timer' = FALSE
    /\ state' = "STOPPED"
    /\ buffer_seconds' = 0
    /\ idle_seconds' = 0

\* mutant: the idle seconds survive the stop
StopEffect_KeepsIdle ==
    /\ tick_timer' = FALSE
    /\ buffer_timer' = FALSE
    /\ state' = "STOPPED"
    /\ buffer_seconds' = 0
    /\ idle_seconds' = idle_seconds

\* the assignments of stop(), shared with reset()
StopEffect ==
    /\ tick_timer' = FALSE
    /\ buffer_timer' = FALSE
    /\ state' = "STOPPED"
    /\ buffer_seconds' = 0
    /\ idle_seconds' = 0

Stop ==
    /\ StopEffect
    /\ signals' = StateChanged(state, "STOPPED")
    /\ call' = Call("stop")
    /\ LeavePaused
    /\ UNCHANGED <<total_seconds, t_limit_minutes, has_callback,
                   last_auto_decision, ticks>>

Reset ==
    /\ StopEffect
    /\ total_seconds' = 0
    /\ signals' = StateChanged(state, "STOPPED") \o TimeUpdated(0)
    /\ call' = Call("reset")
    /\ LeavePaused
    /\ UNCHANGED <<t_limit_minutes, has_callback, last_auto_decision, ticks>>

\* mutant: the accepted idle time is added but the undo slot is not set
PausedAutoAccept_NoSlot(confidence) ==
    /\ total_seconds' = total_seconds + idle_seconds
    /\ last_auto_decision' = last_auto_decision
    /\ idle_seconds' = 0
    /\ state' = "RUNNING"
    /\ tick_timer' = TRUE
    /\ signals' = TimeUpdated(total_seconds')
                     \o AutoDecided(TRUE, idle_seconds, confidence)
                     \o StateChanged(state, "RUNNING")

\* on_activity_detected, PAUSED within T_limit, decision AUTO_ACCEPT
PausedAutoAccept(confidence) ==
    /\ total_seconds' = total_seconds + idle_seconds
    /\ last_auto_decision' = <<TRUE, idle_seconds, confidence>>
    /\ idle_seconds' = 0
    /\ state' = "RUNNING"
    /\ tick_timer' = TRUE
    /\ signals' = TimeUpdated(total_seconds')
                     \o AutoDecided(TRUE, idle_seconds, confidence)
                     \o StateChanged(state, "RUNNING")

\* mutant: the discarded idle time is counted all the same
PausedAutoDiscard_AddsTime(confidence) ==
    /\ total_seconds' = total_seconds + idle_seconds
    /\ last_auto_decision' = <<FALSE, idle_seconds, confidence>>
    /\ idle_seconds' = 0
    /\ state' = "RUNNING"
    /\ tick_timer' = TRUE
    /\ signals' = AutoDecided(FALSE, idle_seconds, confidence)
                     \o StateChanged(state, "RUNNING")

\* on_activity_detected, PAUSED within T_limit, decision AUTO_DISCARD
PausedAutoDiscard(confidence) ==
    /\ total_seconds' = total_seconds
    /\ last_auto_decision' = <<FALSE, idle_seconds, confidence>>
    /\ idle_seconds' = 0
    /\ state' = "RUNNING"
    /\ tick_timer' = TRUE
    /\ signals' = AutoDecided(FALSE, idle_seconds, confidence)
                     \o StateChanged(state, "RUNNING")

\* mutant: the idle time is dropped and the timer resumes without asking
PausedAsk_Resumes(confidence, decision) ==
    /\ idle_seconds' = 0
    /\ state' = "RUNNING"
    /\ signals' = StateChanged(state, "RUNNING")
    /\ UNCHANGED <<total_seconds, last_auto_decision, tick_timer>>

\* on_activity_detected, PAUSED within T_limit, any other decision, and the
\* fallback without a callback (confidence 0.5, decision None)
PausedAsk(confidence, decision) ==
    /\ state' = "COGNITIVE_CHECK"
    /\ signals' = StateChanged(state, "COGNITIVE_CHECK")
                     \o CheckNeeded(idle_seconds, confidence, decision)
    /\ UNCHANGED <<total_seconds, last_auto_decision, idle_seconds,
                   tick_timer>>

\* on_activity_detected, PAUSED beyond T_limit
PausedBeyondLimit ==
    /\ idle_seconds' = 0
    /\ state' = "RUNNING"
    /\ tick_timer' = TRUE
    /\ signals' = StateChanged(state, "RUNNING")
    /\ UNCHANGED <<total_seconds, last_auto_decision>>

\* on_activity_detected; confidence and decision are what the callback
\* returns when it is called
OnActivityDetected(confidence, decision) ==
    /\ CASE state = "STOPPED" ->
              /\ state' = "RUNNING"
              /\ tick_timer' = TRUE
              /\ signals' = StateChanged(state, "RUNNING")
              /\ call' = Call("on_activity_detected")
              /\ UNCHANGED <<total_seconds, buffer_seconds, idle_seconds,
                             last_auto_decision, buffer_timer>>
         [] state = "RUNNING" ->
              /\ signals' = <<>>
              /\ call' = Call("on_activity_detected")
              /\ UNCHANGED <<state, total_seconds, buffer_seconds,
                             idle_seconds, last_auto_decision, tick_timer,
                             buffer_timer>>
         [] state = "BUFFER" ->
              /\ buffer_timer' = FALSE
              /\ buffer_seconds' = 0
              /\ state' = "RUNNING"
              /\ signals' = StateChanged(state, "RUNNING")
              /\ call' = Call("on_activity_detected")
              /\ UNCHANGED <<total_seconds, idle_seconds,
                             last_auto_decision, tick_timer>>
         [] state = "PAUSED" ->
              /\ IF idle_seconds <= TLimitSeconds(t_limit_minutes)
                 THEN IF has_callback
                      THEN /\ call' = [Call("on_activity_detected") EXCEPT
                                          !.decision = decision,
                                          !.confidence = confidence,
                                          !.flag = TRUE]
                           /\ CASE decision = "AUTO_ACCEPT" ->
                                     PausedAutoAccept(confidence)
                                [] decision = "AUTO_DISCARD" ->
                                     PausedAutoDiscard(confidence)
                                [] OTHER ->
                                     PausedAsk(confidence, decision)
                      ELSE /\ call' = Call("on_activity_detected")
                           /\ PausedAsk(Scale \div 2, "None")
                 ELSE /\ call' = Call("on_activity_detected")
                      /\ PausedBeyondLimit
              /\ UNCHANGED <<buffer_seconds, buffer_timer>>
         [] state = "COGNITIVE_CHECK" ->
              /\ signals' = <<>>
              /\ call' = Call("on_activity_detected")
              /\ UNCHANGED <<state, total_seconds, buffer_seconds,
                             idle_seconds, last_auto_decision, tick_timer,
                             buffer_timer>>
    /\ IF state' = "PAUSED" THEN UNCHANGED paused_ticks ELSE LeavePaused
    /\ UNCHANGED <<t_limit_minutes, has_callback, ticks>>

ActivityDetected ==
    \E confidence \in ConfidenceSamples, decision \in ConfidenceDecision :
        OnActivityDetected(confidence, decision)

\* on_activity_stopped
OnActivityStopped ==
    /\ IF state = "RUNNING"
       THEN /\ state' = "BUFFER"
            /\ buffer_seconds' = 0
            /\ buffer_timer' = TRUE
            /\ signals' = StateChanged(state, "BUFFER")
       ELSE /\ signals' = <<>>
            /\ UNCHANGED <<state, buffer_seconds, buffer_timer>>
    /\ call' = Call("on_activity_stopped")
    /\ UNCHANGED <<total_seconds, idle_seconds, t_limit_minutes,
                   has_callback, last_auto_decision, tick_timer, ticks,
                   paused_ticks>>

\* mutant: the response is applied in every state
ResponseApplies_Always(st) == TRUE

\* the guard of on_cognitive_response
ResponseApplies(st) == st = "COGNITIVE_CHECK"

\* mutant: the idle time is added whatever the answer
ResponseTotal_AlwaysAdds(was_thinking, total, idle) == total + idle

\* the total after an answered decision request
ResponseTotal(was_thinking, total, idle) ==
    IF was_thinking THEN total + idle ELSE total

\* what on_cognitive_response(was_thinking) does to the timer's fields
\* other than T_limit
CognitiveResponseEffect(was_thinking) ==
    /\ IF ~ResponseApplies(state)
       THEN /\ signals' = <<>>
            /\ UNCHANGED <<state, total_seconds, idle_seconds, tick_timer,
                           paused_ticks>>
       ELSE /\ total_seconds' = ResponseTotal(was_thinking, total_seconds,
                                              idle_seconds)
            /\ idle_seconds' = 0
            /\ state' = "RUNNING"
            /\ tick_timer' = TRUE
            /\ signals' = (IF was_thinking THEN TimeUpdated(total_seconds')
                                           ELSE <<>>)
                             \o StateChanged(state, "RUNNING")
            /\ LeavePaused
    /\ UNCHANGED <<buffer_seconds, has_callback, last_auto_decision,
                   buffer_timer, ticks>>

\* on_cognitive_response(was_thinking)
OnCognitiveResponse(was_thinking) ==
    /\ call' = [Call("on_cognitive_response") EXCEPT !.flag = was_thinking]
    /\ CognitiveResponseEffect(was_thinking)
    /\ UNCHANGED t_limit_minutes

CognitiveResponse == \E was_thinking \in BOOLEAN :
                        OnCognitiveResponse(was_thinking)

\* mutant: the slot's seconds are added back whatever the decision was
UndoTotal_Adds(was_accepted, seconds, total) == total + seconds

\* the total undo_last_auto_decision leaves for the slot (was_accepted, seconds)
UndoTotal(was_accepted, seconds, total) ==
    IF was_accepted THEN Max(0, total - seconds) ELSE total + seconds

\* mutant: the undone decision stays in the slot
UndoLastAutoDecision_KeepsSlot ==
    /\ IF last_auto_decision = None
       THEN /\ call' = Call("undo_last_auto_decision")
            /\ signals' = <<>>
            /\ UNCHANGED <<total_seconds, last_auto_decision>>
       ELSE /\ total_seconds' = UndoTotal(last_auto_decision[1],
                                          last_auto_decision[2],
                                          total_seconds)
            /\ signals' = TimeUpdated(total_seconds')
            /\ call' = [Call("undo_last_auto_decision") EXCEPT
                           !.ret = <<last_auto_decision[1],
                                     last_auto_decision[2]>>]
            /\ last_auto_decision' = last_auto_decision
    /\ UNCHANGED <<state, buffer_seconds, idle_seconds, t_limit_minutes,
                   has_callback, tick_timer, buffer_timer, ticks,
                   paused_ticks>>

\* undo_last_auto_decision
UndoLastAutoDecision ==
    /\ IF last_auto_decision = None
       THEN /\ call' = Call("undo_last_auto_decision")
            /\ signals' = <<>>
            /\ UNCHANGED <<total_seconds, last_auto_decision>>
       ELSE /\ total_seconds' = UndoTotal(last_auto_decision[1],
                                          last_auto_decision[2],
                                          total_seconds)
            /\ signals' = TimeUpdated(total_seconds')
            /\ call' = [Call("undo_last_auto_decision") EXCEPT
                           !.ret = <<last_auto_decision[1],
                                     last_auto_decision[2]>>]
            /\ last_auto_decision' = None
    /\ UNCHANGED <<state, buffer_seconds, idle_seconds, t_limit_minutes,
                   has_callback, tick_timer, buffer_timer, ticks,
                   paused_ticks>>

\* mutant: the seconds of the buffer period are not counted
TickTotal_RunningOnly(st, total) ==
    IF st = "RUNNING" THEN total + 1 ELSE total

\* total_seconds after one _on_tick in state st
TickTotal(st, total) ==
    IF st \in {"RUNNING", "BUFFER"} THEN total + 1 ELSE total

\* mutant: idle time is never reset by a tick
TickIdle_NoReset(st, idle, minutes) ==
    IF st = "PAUSED" THEN idle + 1 ELSE idle

\* mutant: idle time is reset one tick late
TickIdle_ResetsLate(st, idle, minutes) ==
    IF st = "PAUSED"
    THEN IF idle > TLimitSeconds(minutes) THEN 0 ELSE idle + 1
    ELSE idle

\* mutant: idle time keeps counting while a decision is pending
TickIdle_CountsInCheck(st, idle, minutes) ==
    IF st \in {"PAUSED", "COGNITIVE_CHECK"}
    THEN IF idle + 1 > TLimitSeconds(minutes) THEN 0 ELSE idle + 1
    ELSE idle

\* idle_seconds after one _on_tick in state st
TickIdle(st, idle, minutes) ==
    IF st = "PAUSED"
    THEN IF idle + 1 > TLimitSeconds(minutes) THEN 0 ELSE idle + 1
    ELSE idle

\* _on_tick, fired by the tick timer
OnTick ==
    /\ tick_timer
    /\ ticks < MaxTicks
    /\ ticks' = ticks + 1
    /\ call' = Call("_on_tick")
    /\ total_seconds' = TickTotal(state, total_seconds)
    /\ buffer_seconds' = IF state = "BUFFER" THEN buffer_seconds + 1
                                             ELSE buffer_seconds
    /\ idle_seconds' = TickIdle(state, idle_seconds, t_limit_minutes)
    /\ paused_ticks' = IF state = "PAUSED" THEN paused_ticks + 1
                                           ELSE paused_ticks
    /\ signals' = IF state \in {"RUNNING", "BUFFER"}
                  THEN TimeUpdated(total_seconds') ELSE <<>>
    /\ UNCHANGED <<state, t_limit_minutes, has_callback, last_auto_decision,
                   tick_timer, buffer_timer>>

\* mutant: an expiry is applied in every state
ExpiryApplies_Always(st) == TRUE

\* the guard of _on_buffer_expired
ExpiryApplies(st) == st = "BUFFER"

\* the body of _on_buffer_expired
BufferExpired ==
    /\ buffer_timer' = FALSE
    /\ call' = Call("_on_buffer_expired")
    /\ IF ExpiryApplies(state)
       THEN /\ state' = "PAUSED"
            /\ idle_seconds' = 0
            /\ paused_ticks' = 0
            /\ signals' = StateChanged(state, "PAUSED")
       ELSE /\ signals' = <<>>
            /\ UNCHANGED <<state, idle_seconds, paused_ticks>>
    /\ UNCHANGED <<total_seconds, buffer_seconds, t_limit_minutes,
                   has_callback, last_auto_decision, tick_timer, ticks>>

\* _on_buffer_expired, fired once by the single-shot buffer timer
OnBufferExpired ==
    /\ buffer_timer
    /\ BufferExpired

\* _on_buffer_expired run while the buffer timer is not active: a timeout
\* delivered after the timer was stopped, or a direct call of the slot
OnBufferExpiredLate ==
    /\ ~buffer_timer
    /\ BufferExpired

----------------------------------------------------------------------------
(* Fixed-point arithmetic *)

\* a * b and a / b of two Scale-unit numbers
Mul(a, b) == (a * b) \div Scale
Div(a, b) == (a * Scale) \div b

\* no clamping at all
Clamp_None(lo, x, hi) == x

Clamp(lo, x, hi) == Max(lo, Min(hi, x))

RECURSIVE SqrtSearch(_, _, _)
SqrtSearch(n, lo, hi) ==
    IF lo >= hi THEN lo
    ELSE LET mid == (lo + hi + 1) \div 2
         IN  IF mid * mid <= n THEN SqrtSearch(n, mid, hi)
                               ELSE SqrtSearch(n, lo, mid - 1)

\* math.sqrt(x / n) for a Scale-unit x and an integer n, rounded down
SqrtOfQuotient(x, n) == SqrtSearch((x * Scale) \div n, 0, 46340)

RECURSIVE Pow(_, _)
Pow(base, i) == IF i = 0 THEN Scale ELSE Mul(Pow(base, i - 1), base)

RECURSIVE SumSeq(_)
SumSeq(q) == IF q = <<>> THEN 0 ELSE Head(q) + SumSeq(Tail(q))

\* dict.get(key, default)
Get(data, key, default) == IF key \in DOMAIN data THEN data[key] ELSE default

\* q[-n:]
LastN(q, n) == IF Len(q) <= n THEN q ELSE SubSeq(q, Len(q) - n + 1, Len(q))

----------------------------------------------------------------------------
(* IdleBucket and ProjectModifier properties *)

\* IdleBucket.validation_rate
BucketValidationRate(b) ==
    IF b.total_count = 0 THEN Scale \div 2
    ELSE Div(b.validated_count, b.total_count)

\* z = 1.96 and z * z
Z == (196 * Scale) \div 100
ZZ == (38416 * Scale) \div 10000

\* IdleBucket.confidence: the Wilson score lower bound
BucketConfidence(b) ==
    IF b.total_count = 0 THEN 0
    ELSE LET n == b.total_count
             p == BucketValidationRate(b)
             denominator == Scale + ZZ \div n
             centre_adjusted_probability == p + ZZ \div (2 * n)
             adjusted_standard_deviation ==
                 SqrtOfQuotient(Mul(p, Scale - p) + ZZ \div (4 * n), n)
             lower_bound ==
                 Div(centre_adjusted_probability
                         - Mul(Z, adjusted_standard_deviation),
                     denominator)
         IN  Clamp(0, lower_bound, Scale)

\* ProjectModifier.validation_rate
ProjectValidationRate(m) ==
    LET total == m.total_validations + m.total_rejections
    IN  IF total = 0 THEN Scale \div 2
        ELSE (m.total_validations * Scale) \div total

\* ProjectModifier.project_phase
ProjectPhase(m) ==
    IF m.total_work_time < 2 * 3600 THEN "early"
    ELSE IF m.total_work_time < 10 * 3600 THEN "mid"
    ELSE "late"

\* ProjectModifier(file_hash=...) with its default fields
NewProjectModifier ==
    [total_validations |-> 0, total_rejections |-> 0,
     avg_validated_idle |-> 300, session_count |-> 0, total_work_time |-> 0]

----------------------------------------------------------------------------
(* CognitiveProfile: buckets, intensity, classification *)

\* the lookup with the upper end of a range taken as part of the range
RECURSIVE BucketKeyFrom_Inclusive(_, _)
BucketKeyFrom_Inclusive(seconds, i) ==
    IF i > Len(BUCKET_RANGES)
    THEN BucketKeyOf(BUCKET_RANGES[Len(BUCKET_RANGES)])
    ELSE IF BUCKET_RANGES[i][1] <= seconds /\ seconds <= BUCKET_RANGES[i][2]
         THEN BucketKeyOf(BUCKET_RANGES[i])
         ELSE BucketKeyFrom_Inclusive(seconds, i + 1)

RECURSIVE BucketKeyFrom(_, _)
BucketKeyFrom(seconds, i) ==
    IF i > Len(BUCKET_RANGES)
    THEN BucketKeyOf(BUCKET_RANGES[Len(BUCKET_RANGES)])
    ELSE IF BUCKET_RANGES[i][1] <= seconds /\ seconds < BUCKET_RANGES[i][2]
         THEN BucketKeyOf(BUCKET_RANGES[i])
         ELSE BucketKeyFrom(seconds, i + 1)

\* CognitiveProfile._bucket_key
BucketKey(seconds) == BucketKeyFrom(seconds, 1)

\* sum(b.total_count for b in self._buckets.values())
TotalSamples(bs) ==
    SumSeq([i \in DOMAIN BUCKET_RANGES |->
                bs[BucketKeyOf(BUCKET_RANGES[i])].total_count])

\* CognitiveProfile.get_pre_pause_intensity over the bursts' intensities
PrePauseIntensity(bursts) ==
    IF bursts = <<>> THEN Scale \div 2
    ELSE LET last == LastN(bursts, 5)
             n == Len(last)
             \* enumerate(reversed(...)): index i is the (i+1)-th from the end
             weight(i) == Pow(DECAY_FACTOR, i)
             total_weight == SumSeq([i \in 1..n |-> weight(i - 1)])
             weighted_intensity ==
                 SumSeq([i \in 1..n |->
                            Mul(last[n + 1 - i].intensity, weight(i - 1))])
         IN  IF total_weight = 0 THEN Scale \div 2
             ELSE Div(weighted_intensity, total_weight)

\* the classification with the rejection history looked at before the
\* planning range
ClassifyPause_HistoryFirst(duration_seconds, pre_intensity, pauses) ==
    LET last == LastN(pauses, 5)
        recent_rejections ==
            Cardinality({i \in DOMAIN last :
                            /\ ~last[i].was_validated
                            /\ last[i].duration_seconds < 300})
    IN  IF duration_seconds <= 3 * 60 /\ pre_intensity > Scale \div 2
        THEN "MICRO_THINKING"
        ELSE IF recent_rejections >= 2 /\ duration_seconds < 10 * 60
        THEN "CONTEXT_SWITCH"
        ELSE IF 5 * 60 <= duration_seconds /\ duration_seconds <= 12 * 60
        THEN "PLANNING_PAUSE"
        ELSE IF duration_seconds > 15 * 60
        THEN "BREAK"
        ELSE "UNKNOWN"

\* CognitiveProfile.classify_pause; minutes = duration_seconds / 60 is
\* compared through duration_seconds
ClassifyPause(duration_seconds, pre_intensity, pauses) ==
    LET last == LastN(pauses, 5)
        recent_rejections ==
            Cardinality({i \in DOMAIN last :
                            /\ ~last[i].was_validated
                            /\ last[i].duration_seconds < 300})
    IN  IF duration_seconds <= 3 * 60 /\ pre_intensity > Scale \div 2
        THEN "MICRO_THINKING"
        ELSE IF 5 * 60 <= duration_seconds /\ duration_seconds <= 12 * 60
        THEN "PLANNING_PAUSE"
        ELSE IF recent_rejections >= 2 /\ duration_seconds < 10 * 60
        THEN "CONTEXT_SWITCH"
        ELSE IF duration_seconds > 15 * 60
        THEN "BREAK"
        ELSE "UNKNOWN"

----------------------------------------------------------------------------
(* CognitiveProfile.calculate_confidence *)

\* session_factor from the session age in minutes
SessionFactor(session_age) ==
    IF session_age < 30 THEN Scale
    ELSE IF session_age < 60 THEN (9 * Scale) \div 10
    ELSE (8 * Scale) \div 10

\* time_factor from datetime.now().hour
TimeFactor(hour) ==
    IF (9 <= hour /\ hour <= 11) \/ (14 <= hour /\ hour <= 17)
    THEN (105 * Scale) \div 100
    ELSE IF hour < 7 \/ hour > 22 THEN (9 * Scale) \div 10
    ELSE Scale

StreakFactor(validated, rejected) ==
    IF validated >= 3 THEN (11 * Scale) \div 10
    ELSE IF rejected >= 3 THEN (85 * Scale) \div 100
    ELSE Scale

ProjectFactor(project_hash, modifiers) ==
    IF project_hash # NoProject /\ project_hash \in DOMAIN modifiers
    THEN LET modifier == modifiers[project_hash]
             project_factor ==
                 (7 * Scale) \div 10
                     + Mul(ProjectValidationRate(modifier), (3 * Scale) \div 10)
         IN  IF ProjectPhase(modifier) = "early"
             THEN Mul(project_factor, (11 * Scale) \div 10)
             ELSE IF ProjectPhase(modifier) = "late"
             THEN Mul(project_factor, (95 * Scale) \div 100)
             ELSE project_factor
    ELSE Scale

\* negative_adjustment; focus_lost is in halves, 0.05 per whole loss
NegativeAdjustment(focus_lost) ==
    IF focus_lost > 0
    THEN Max((7 * Scale) \div 10, Scale - (focus_lost * 5 * Scale) \div 200)
    ELSE Scale

BiasAdjustment(bias) == Scale + Mul(bias, (2 * Scale) \div 10)

\* base_confidence
\* global_rate = total_validations / max(1, validations + rejections)
GlobalRate(validations, rejections) ==
    Div(validations, Max(1, validations + rejections))

\* mutant: the bucket's own rate whatever its confidence
BaseConfidence_BucketOnly(bucket, validations, rejections) ==
    BucketValidationRate(bucket)

BaseConfidence(bucket, validations, rejections) ==
    LET base_rate == BucketValidationRate(bucket)
        bucket_confidence == BucketConfidence(bucket)
    IN  IF bucket_confidence > Scale \div 2
        THEN base_rate
        ELSE LET global_rate == GlobalRate(validations, rejections)
             IN  Mul(base_rate, bucket_confidence)
                     + Mul(global_rate, Scale - bucket_confidence)

\* final_confidence, clamped to [0, 1], when _activity_bursts is bursts
FinalConfidenceFrom(bursts, idle, project_hash, session_age, hour) ==
    LET bucket == buckets[BucketKey(idle)]
        intensity_factor ==
            Scale \div 2
                + Mul(PrePauseIntensity(bursts), (3 * Scale) \div 10)
        product ==
            Mul(Mul(Mul(Mul(Mul(Mul(Mul(
                BaseConfidence(bucket, total_validations, total_rejections),
                intensity_factor),
                SessionFactor(IF session_started THEN session_age ELSE 0)),
                TimeFactor(hour)),
                StreakFactor(consecutive_validated, consecutive_rejected)),
                ProjectFactor(project_hash, project_modifiers)),
                NegativeAdjustment(focus_lost_count)),
                BiasAdjustment(user_bias))
    IN  Clamp(0, product, Scale)

FinalConfidence(idle, project_hash, session_age, hour) ==
    FinalConfidenceFrom(activity_bursts, idle, project_hash, session_age, hour)

\* mutant: a low confidence asks instead of discarding
ThresholdDecision_NeverDiscards(final_confidence) ==
    IF final_confidence >= AUTO_ACCEPT_THRESHOLD THEN "AUTO_ACCEPT"
    ELSE "ASK_USER"

\* the decision the two thresholds give for a confidence
ThresholdDecision(final_confidence) ==
    IF final_confidence >= AUTO_ACCEPT_THRESHOLD THEN "AUTO_ACCEPT"
    ELSE IF final_confidence <= AUTO_DISCARD_THRESHOLD THEN "AUTO_DISCARD"
    ELSE "ASK_USER"

\* mutant: the thresholds are applied whatever the sample count
Decide_NoMinimum(total_samples, final_confidence) ==
    ThresholdDecision(final_confidence)

\* the decision for a confidence when the buckets hold total_samples
Decide(total_samples, final_confidence) ==
    IF total_samples < MIN_SAMPLES_FOR_AUTO THEN "ASK_USER"
    ELSE ThresholdDecision(final_confidence)

\* calculate_confidence(idle_seconds, project_hash), called when the
\* session is session_age minutes old at the local hour `hour`
CalculateConfidence(idle, project_hash, session_age, hour) ==
    LET final_confidence ==
            FinalConfidence(idle, project_hash, session_age, hour)
    IN  /\ call' = [Call("calculate_confidence") EXCEPT
                       !.arg = <<idle, project_hash>>,
                       !.confidence = final_confidence,
                       !.decision = Decide(TotalSamples(buckets),
                                           final_confidence)]
        /\ UNCHANGED profileVars

----------------------------------------------------------------------------
(* CognitiveProfile.record_validation *)

\* int(count * DECAY_FACTOR)
Decayed(count) == (count * DECAY_FACTOR) \div Scale

\* the decay never applied
ApplyDecayToBuckets_Never(bs) == bs

\* the decay applied to total_count only
ApplyDecayToBuckets_TotalOnly(bs) ==
    IF TotalSamples(bs) > 0 /\ TotalSamples(bs) % 50 = 0
    THEN [k \in DOMAIN bs |->
             [total_count |-> Decayed(bs[k].total_count),
              validated_count |-> bs[k].validated_count]]
    ELSE bs

\* _apply_decay_to_buckets
ApplyDecayToBuckets(bs) ==
    IF TotalSamples(bs) > 0 /\ TotalSamples(bs) % 50 = 0
    THEN [k \in DOMAIN bs |->
             [total_count |-> Decayed(bs[k].total_count),
              validated_count |-> Decayed(bs[k].validated_count)]]
    ELSE bs

\* the bucket update with total_count left alone for a validated pause
RecordInBuckets_ValidatedOnly(bs, idle, was_validated) ==
    LET key == BucketKey(idle)
        counted ==
            [bs EXCEPT ![key] =
                IF was_validated
                THEN [@ EXCEPT !.validated_count = @ + 1]
                ELSE [@ EXCEPT !.total_count = @ + 1]]
    IN  ApplyDecayToBuckets(counted)

\* the bucket update of record_validation, decay included
RecordInBuckets(bs, idle, was_validated) ==
    LET key == BucketKey(idle)
        counted ==
            [bs EXCEPT ![key] =
                [total_count |-> @.total_count + 1,
                 validated_count |-> IF was_validated
                                     THEN @.validated_count + 1
                                     ELSE @.validated_count]]
    IN  ApplyDecayToBuckets(counted)

\* _update_project_modifier; the running mean is kept in whole seconds
UpdateProjectModifier(modifiers, project_hash, idle, was_validated) ==
    LET known == IF project_hash \in DOMAIN modifiers
                 THEN modifiers
                 ELSE [k \in DOMAIN modifiers \cup {project_hash} |->
                          IF k = project_hash THEN NewProjectModifier
                          ELSE modifiers[k]]
        m == known[project_hash]
        updated ==
            IF was_validated
            THEN [m EXCEPT
                    !.total_validations = @ + 1,
                    !.avg_validated_idle =
                        (@ * m.total_validations + idle)
                            \div (m.total_validations + 1)]
            ELSE [m EXCEPT !.total_rejections = @ + 1]
    IN  [known EXCEPT ![project_hash] = updated]

\* update_project_work_time(project_hash, total_seconds); the extension
\* calls it only for a document that has a file hash
WorkTimeUpdated(modifiers, project_hash, total) ==
    IF project_hash = NoProject THEN modifiers
    ELSE LET known == IF project_hash \in DOMAIN modifiers
                      THEN modifiers
                      ELSE [k \in DOMAIN modifiers \cup {project_hash} |->
                               IF k = project_hash THEN NewProjectModifier
                               ELSE modifiers[k]]
         IN  [known EXCEPT ![project_hash].total_work_time = total]

\* mutant: the opposite streak is kept
ResetStreak_Keeps(count) == count

\* the streak counters that a record of the opposite kind sets to 0
ResetStreak(count) == 0

\* record_validation(idle_seconds, was_validated, project_hash), followed
\* in the same handler by update_project_work_time(work_hash, total)
\* when work_hash is a file hash
RecordedWith(bursts, idle, was_validated, project_hash, work_hash, total) ==
    LET pre_intensity == PrePauseIntensity(bursts)
        pattern == ClassifyPause(idle, pre_intensity, recent_pauses)
        \* the timestamp, session age and hour of a PauseEvent are clock
        \* readings that nothing reads back
        event == [duration_seconds |-> idle,
                  was_validated |-> was_validated,
                  pattern |-> pattern,
                  pre_pause_intensity |-> pre_intensity,
                  project_hash |-> project_hash]
    IN  /\ buckets' = RecordInBuckets(buckets, idle, was_validated)
        /\ IF was_validated
           THEN /\ total_validations' = total_validations + 1
                /\ consecutive_validated' = consecutive_validated + 1
                /\ consecutive_rejected' = ResetStreak(consecutive_rejected)
                /\ current_streak' = current_streak + 1
                /\ longest_validated_streak' =
                       Max(longest_validated_streak, current_streak + 1)
                /\ UNCHANGED total_rejections
           ELSE /\ total_rejections' = total_rejections + 1
                /\ consecutive_rejected' = consecutive_rejected + 1
                /\ consecutive_validated' = ResetStreak(consecutive_validated)
                /\ current_streak' = ResetStreak(current_streak)
                /\ UNCHANGED <<total_validations, longest_validated_streak>>
        /\ recent_pauses' = LastN(Append(recent_pauses, event),
                                  MaxRecentPauses)
        /\ project_modifiers' =
               WorkTimeUpdated(
                   IF project_hash # NoProject
                   THEN UpdateProjectModifier(project_modifiers,
                                              project_hash, idle,
                                              was_validated)
                   ELSE project_modifiers,
                   work_hash, total)
        /\ repeated_rejection_patterns' =
               IF was_validated THEN repeated_rejection_patterns
               ELSE LastN(Append(repeated_rejection_patterns,
                                 <<idle, pre_intensity>>),
                          MaxRejectionPatterns)
        /\ focus_lost_count' = Max(0, focus_lost_count - 2)
        /\ activity_bursts' = bursts
        /\ UNCHANGED <<session_started, user_bias, implicit_trust_enabled>>

RecordValidationAnd(idle, was_validated, project_hash, work_hash, total) ==
    RecordedWith(activity_bursts, idle, was_validated, project_hash,
                 work_hash, total)

\* record_validation(idle_seconds, was_validated, project_hash)
RecordValidation(idle, was_validated, project_hash) ==
    RecordValidationAnd(idle, was_validated, project_hash, NoProject, 0)

----------------------------------------------------------------------------
(* CognitiveProfile: the other mutators *)

\* record_focus_lost
RecordFocusLost ==
    /\ focus_lost_count' = focus_lost_count + 2
    /\ UNCHANGED <<buckets, recent_pauses, activity_bursts, session_started,
                   consecutive_validated, consecutive_rejected,
                   project_modifiers, total_validations, total_rejections,
                   longest_validated_streak, current_streak,
                   repeated_rejection_patterns, user_bias,
                   implicit_trust_enabled>>

\* a regain that forgets every loss
RecordFocusRegained_Resets ==
    /\ focus_lost_count' = 0
    /\ UNCHANGED <<buckets, recent_pauses, activity_bursts, session_started,
                   consecutive_validated, consecutive_rejected,
                   project_modifiers, total_validations, total_rejections,
                   longest_validated_streak, current_streak,
                   repeated_rejection_patterns, user_bias,
                   implicit_trust_enabled>>

\* record_focus_regained
RecordFocusRegained ==
    /\ focus_lost_count' = Max(0, focus_lost_count - 1)
    /\ UNCHANGED <<buckets, recent_pauses, activity_bursts, session_started,
                   consecutive_validated, consecutive_rejected,
                   project_modifiers, total_validations, total_rejections,
                   longest_validated_streak, current_streak,
                   repeated_rejection_patterns, user_bias,
                   implicit_trust_enabled>>

\* set_user_bias(bias)
SetUserBias(bias) ==
    /\ user_bias' = Clamp(-Scale, bias, Scale)
    /\ UNCHANGED <<buckets, recent_pauses, activity_bursts, session_started,
                   consecutive_validated, consecutive_rejected,
                   project_modifiers, total_validations, total_rejections,
                   longest_validated_streak, current_streak, focus_lost_count,
                   repeated_rejection_patterns, implicit_trust_enabled>>

\* enable_implicit_trust(enabled)
EnableImplicitTrust(enabled) ==
    /\ implicit_trust_enabled' = enabled
    /\ UNCHANGED <<buckets, recent_pauses, activity_bursts, session_started,
                   consecutive_validated, consecutive_rejected,
                   project_modifiers, total_validations, total_rejections,
                   longest_validated_streak, current_streak, focus_lost_count,
                   repeated_rejection_patterns, user_bias>>

\* start_session(project_hash): the modifiers with the session counted
SessionCounted(modifiers, project_hash) ==
    IF project_hash # NoProject /\ project_hash \in DOMAIN modifiers
    THEN [modifiers EXCEPT ![project_hash].session_count = @ + 1]
    ELSE modifiers

\* start_session(project_hash)
StartSession(project_hash) ==
    /\ session_started' = TRUE
    /\ focus_lost_count' = 0
    /\ activity_bursts' = <<>>
    /\ project_modifiers' = SessionCounted(project_modifiers, project_hash)
    /\ UNCHANGED <<buckets, recent_pauses, consecutive_validated,
                   consecutive_rejected, total_validations, total_rejections,
                   longest_validated_streak, current_streak,
                   repeated_rejection_patterns, user_bias,
                   implicit_trust_enabled>>

\* the buckets after from_dict(data): stored counts for the keys the
\* profile has, a missing count read as 0
LoadedBuckets(bs, data) ==
    IF "buckets" \in DOMAIN data
    THEN [k \in DOMAIN bs |->
             IF k \in DOMAIN data.buckets
             THEN [total_count |-> Get(data.buckets[k], "total", 0),
                   validated_count |-> Get(data.buckets[k], "validated", 0)]
             ELSE bs[k]]
    ELSE bs

\* the project modifiers after from_dict(data)
LoadedModifiers(modifiers, data) ==
    IF "project_modifiers" \in DOMAIN data
    THEN [k \in DOMAIN modifiers \cup DOMAIN data.project_modifiers |->
             IF k \in DOMAIN data.project_modifiers
             THEN [f \in DOMAIN NewProjectModifier |->
                      Get(data.project_modifiers[k], f, NewProjectModifier[f])]
             ELSE modifiers[k]]
    ELSE modifiers

\* to_dict(): the stored form of the profile; the min and max of a bucket
\* and the file_hash and last_filename of a project are written too, and
\* nothing reads them back into a field of the model
ToDict ==
    [buckets |->
         [k \in BucketKeys |->
             [total |-> buckets[k].total_count,
              validated |-> buckets[k].validated_count]],
     total_validations |-> total_validations,
     total_rejections |-> total_rejections,
     longest_validated_streak |-> longest_validated_streak,
     user_bias |-> user_bias,
     implicit_trust_enabled |-> implicit_trust_enabled,
     project_modifiers |-> project_modifiers]

\* the fields of a profile constructed and then loaded by from_dict(data)
FreshlyLoaded(data) ==
    [buckets |-> LoadedBuckets([k \in BucketKeys |-> EmptyBucket], data),
     project_modifiers |-> LoadedModifiers(<<>>, data),
     total_validations |-> Get(data, "total_validations", 0),
     total_rejections |-> Get(data, "total_rejections", 0),
     longest_validated_streak |-> Get(data, "longest_validated_streak", 0),
     user_bias |-> Get(data, "user_bias", 0),
     implicit_trust_enabled |-> Get(data, "implicit_trust_enabled", FALSE),
     consecutive_validated |-> 0,
     consecutive_rejected |-> 0,
     current_streak |-> 0]

\* from_dict(data); a key that data lacks leaves the default
FromDict(data) ==
    IF DOMAIN data = {}
    THEN UNCHANGED profileVars
    ELSE /\ buckets' = LoadedBuckets(buckets, data)
         /\ total_validations' = Get(data, "total_validations", 0)
         /\ total_rejections' = Get(data, "total_rejections", 0)
         /\ longest_validated_streak' =
                Get(data, "longest_validated_streak", 0)
         /\ user_bias' = Get(data, "user_bias", 0)
         /\ implicit_trust_enabled' =
                Get(data, "implicit_trust_enabled", FALSE)
         /\ project_modifiers' = LoadedModifiers(project_modifiers, data)
         /\ UNCHANGED <<recent_pauses, activity_bursts, session_started,
                        consecutive_validated, consecutive_rejected,
                        current_streak, focus_lost_count,
                        repeated_rejection_patterns>>

----------------------------------------------------------------------------
(* The timer on its own, with an arbitrary decision callback *)

Next ==
    \/ SetTLimit /\ UNCHANGED <<profileVars, ops, extensionVars>>
    \/ SetCognitiveDecisionCallback /\ UNCHANGED <<profileVars, ops, extensionVars>>
    \/ SetTotalSeconds /\ UNCHANGED <<profileVars, ops, extensionVars>>
    \/ Start /\ UNCHANGED <<profileVars, ops, extensionVars>>
    \/ Stop /\ UNCHANGED <<profileVars, ops, extensionVars>>
    \/ Reset /\ UNCHANGED <<profileVars, ops, extensionVars>>
    \/ ActivityDetected /\ UNCHANGED <<profileVars, ops, extensionVars>>
    \/ OnActivityStopped /\ UNCHANGED <<profileVars, ops, extensionVars>>
    \/ CognitiveResponse /\ UNCHANGED <<profileVars, ops, extensionVars>>
    \/ UndoLastAutoDecision /\ UNCHANGED <<profileVars, ops, extensionVars>>
    \/ OnTick /\ UNCHANGED <<profileVars, ops, extensionVars>>
    \/ OnBufferExpired /\ UNCHANGED <<profileVars, ops, extensionVars>>
    \/ OnBufferExpiredLate /\ UNCHANGED <<profileVars, ops, extensionVars>>

Spec == Init /\ [][Next]_vars

----------------------------------------------------------------------------
(* The confidence model on its own *)

\* the profile after from_dict(data) on a fresh profile whose bursts are
\* `bursts`, then set to the user bias `bias` and the opt-in `trust`
ProfileLoadedIn(started, bursts, data, bias, trust) ==
    /\ buckets = LoadedBuckets([k \in BucketKeys |-> EmptyBucket], data)
    /\ recent_pauses = <<>>
    /\ activity_bursts = bursts
    /\ session_started = started
    /\ consecutive_validated = 0
    /\ consecutive_rejected = 0
    /\ project_modifiers = LoadedModifiers(<<>>, data)
    /\ total_validations = Get(data, "total_validations", 0)
    /\ total_rejections = Get(data, "total_rejections", 0)
    /\ longest_validated_streak = Get(data, "longest_validated_streak", 0)
    /\ current_streak = 0
    /\ focus_lost_count = 0
    /\ repeated_rejection_patterns = <<>>
    /\ user_bias = bias
    /\ implicit_trust_enabled = trust

ProfileLoaded(bursts, data, bias, trust) ==
    ProfileLoadedIn(FALSE, bursts, data, bias, trust)

\* a profile constructed and then loaded by from_dict from the stored
\* profile (which may be empty)
InitProfile ==
    /\ TimerConstructed
    /\ ops = 0
    /\ ExtensionConstructed
    /\ \E bursts \in BurstSamples, i \in 0..Len(DictSamples) :
        LET data == IF i = 0 THEN <<>> ELSE DictSamples[i]
        IN  ProfileLoaded(bursts, data, Get(data, "user_bias", 0),
                          Get(data, "implicit_trust_enabled", FALSE))

\* a profile method was called; the timer is not involved
ProfileCall(op, arg) ==
    /\ ops < MaxOps
    /\ ops' = ops + 1
    /\ call' = [Call(op) EXCEPT !.arg = arg]
    /\ signals' = <<>>
    /\ UNCHANGED <<timerCore, extensionVars>>

DoCalculateConfidence ==
    \E idle \in IdleInputs, project_hash \in ProjectInputs,
       session_age \in SessionAges, hour \in Hours :
        /\ ops < MaxOps
        /\ ops' = ops + 1
        /\ CalculateConfidence(idle, project_hash, session_age, hour)
        /\ signals' = <<>>
        /\ UNCHANGED <<timerCore, extensionVars>>

DoRecordValidation ==
    \E idle \in IdleInputs, was_validated \in BOOLEAN,
       project_hash \in ProjectInputs :
        /\ RecordValidation(idle, was_validated, project_hash)
        /\ ProfileCall("record_validation",
                       <<idle, was_validated, project_hash>>)

DoRecordFocusLost ==
    /\ focus_lost_count < 2 * MaxFocusLost
    /\ RecordFocusLost
    /\ ProfileCall("record_focus_lost", <<>>)

DoRecordFocusRegained ==
    /\ RecordFocusRegained
    /\ ProfileCall("record_focus_regained", <<>>)

DoSetUserBias ==
    \E bias \in BiasInputs :
        /\ SetUserBias(bias)
        /\ ProfileCall("set_user_bias", <<bias>>)

DoEnableImplicitTrust ==
    \E enabled \in BOOLEAN :
        /\ EnableImplicitTrust(enabled)
        /\ ProfileCall("enable_implicit_trust", <<enabled>>)

DoStartSession ==
    \E project_hash \in ProjectInputs :
        /\ \A k \in DOMAIN project_modifiers :
               project_modifiers[k].session_count < MaxSessions
        /\ StartSession(project_hash)
        /\ ProfileCall("start_session", <<project_hash>>)

\* get_trust_level
GetTrustLevel ==
    LET total_samples == total_validations + total_rejections
    IN  IF total_samples < MIN_SAMPLES_FOR_AUTO THEN 0
        ELSE LET sample_confidence ==
                     Min(Scale, (total_samples * Scale) \div 100)
                 rate == Div(total_validations, total_samples)
                 distance == rate - Scale \div 2
                 consistency ==
                     (IF distance < 0 THEN -distance ELSE distance) * 2
                 streak_bonus ==
                     Min((2 * Scale) \div 10,
                         (longest_validated_streak * Scale) \div 50)
                 trust ==
                     Mul(sample_confidence, (4 * Scale) \div 10)
                         + Mul(consistency, (4 * Scale) \div 10)
                         + streak_bonus
             IN  Min(Scale, trust)

\* notification mode whatever the opt-in says
ShouldUseNotification_IgnoresOptIn == GetTrustLevel >= TRUST_LEVEL_HIGH

\* should_use_notification
ShouldUseNotification ==
    IF ~implicit_trust_enabled THEN FALSE
    ELSE GetTrustLevel >= TRUST_LEVEL_HIGH

DoShouldUseNotification ==
    /\ ops < MaxOps
    /\ ops' = ops + 1
    /\ call' = [Call("should_use_notification") EXCEPT
                   !.ret = ShouldUseNotification]
    /\ signals' = <<>>
    /\ UNCHANGED <<timerCore, extensionVars, profileVars>>

DoGetTrustLevel ==
    /\ ops < MaxOps
    /\ ops' = ops + 1
    /\ call' = [Call("get_trust_level") EXCEPT !.ret = GetTrustLevel]
    /\ signals' = <<>>
    /\ UNCHANGED <<timerCore, extensionVars, profileVars>>

DoFromDict ==
    \/ /\ FromDict(<<>>)
       /\ ProfileCall("from_dict", <<0>>)
    \/ \E i \in DOMAIN DictSamples :
        /\ FromDict(DictSamples[i])
        /\ ProfileCall("from_dict", <<i>>)

NextProfile ==
    \/ DoCalculateConfidence
    \/ DoRecordValidation
    \/ DoRecordFocusLost
    \/ DoRecordFocusRegained
    \/ DoSetUserBias
    \/ DoEnableImplicitTrust
    \/ DoStartSession
    \/ DoFromDict
    \/ DoGetTrustLevel
    \/ DoShouldUseNotification

SpecProfile == InitProfile /\ [][NextProfile]_vars

----------------------------------------------------------------------------
(* Signals of the last handler *)

IsRequest(m) == m.sig = "cognitive_check_needed"
IsAutoDecided(m) == m.sig = "cognitive_auto_decided"

\* the decision requests and the auto-decision events among sigs
RequestsIn(sigs) == SelectSeq(sigs, IsRequest)
AutoDecidedIn(sigs) == SelectSeq(sigs, IsAutoDecided)

\* the step is a run of on_activity_detected
PulseStep == call'.op = "on_activity_detected"

\* a pulse arrives in PAUSED with idle within T_limit
PulseWithinLimit ==
    /\ PulseStep
    /\ state = "PAUSED"
    /\ idle_seconds <= TLimitSeconds(t_limit_minutes)

----------------------------------------------------------------------------
(* WorkTimerExtension: the stored T_limit, the dialog and the notification,
   the current document, and the handlers that connect the activity
   monitor, the timer, the profile and the storage *)

\* values of t_limit_minutes found in the settings file
StoredTLimits == {5, 20, 40}
\* idle seconds of a decision request whose dialog is open
PendingIdles == {0, 90}
\* idle seconds of a pause under way
PausedIdles == {90, 1500}
\* values of user_bias found in the settings file
StoredBiases == {-3 * Scale, 3 * Scale}
\* work time stored for a document that is opened
ExistingTimes == {0, 3}

\* WorkTimerStorage.set_t_limit(minutes): the value stored
StorageTLimit(minutes) == Max(15, Min(25, minutes))

\* WorkTimerStorage.adjust_t_limit(delta): the value stored and returned
AdjustedTLimit(current, delta) ==
    StorageTLimit(Max(15, Min(25, current + delta)))

\* the time_updated signals among sigs
IsTimeUpdated(m) == m.sig = "time_updated"
TimeUpdatedIn(sigs) == SelectSeq(sigs, IsTimeUpdated)

\* _on_time_updated for the signals of a handler: the hash handed to
\* update_project_work_time, if it is called
WorkHash(sigs) ==
    IF TimeUpdatedIn(sigs) # <<>> THEN current_file_hash ELSE NoProject

\* the profile fields that update_project_work_time leaves alone
profileButModifiers ==
    <<buckets, recent_pauses, activity_bursts, session_started,
      consecutive_validated, consecutive_rejected, total_validations,
      total_rejections, longest_validated_streak, current_streak,
      focus_lost_count, repeated_rejection_patterns, user_bias,
      implicit_trust_enabled>>

\* the profile fields that record_activity leaves alone
profileButBursts ==
    <<buckets, recent_pauses, session_started, consecutive_validated,
      consecutive_rejected, project_modifiers, total_validations,
      total_rejections, longest_validated_streak, current_streak,
      focus_lost_count, repeated_rejection_patterns, user_bias,
      implicit_trust_enabled>>

\* seconds between a pulse and the pulse before it
PulseGaps == {1, 200, 2000}
\* seconds between the start of the activity window and its latest pulse
WindowLeads == {0}
\* pulses counted in the activity window
WindowCounts == {48}
\* time.time() at the first pulse and at the latest pulse of a started run
FirstPulseTimes == {1000}
LastPulseTimes == {1040}

\* mutant: every burst that began before the pulse is kept
BurstKept_Always(timestamp, now) == timestamp <= now

\* record_activity's filter: a burst is kept while it began less than five
\* minutes before the pulse
BurstKept(timestamp, now) == timestamp > now - 300

\* record_activity at time now, for a profile whose window began at
\* window_start_time and has counted activity_count_window pulses: a window
\* older than 30 seconds that counted a pulse is closed into a burst and
\* the bursts are pruned; the result is _activity_bursts
RecordActivity(bursts, window_start_time, activity_count_window, now) ==
    IF now - window_start_time > 30 /\ activity_count_window > 0
    THEN LET burst == [timestamp |-> window_start_time,
                       duration_seconds |-> now - window_start_time,
                       intensity |->
                           Min(Scale,
                               (activity_count_window * Scale) \div 60),
                       event_count |-> activity_count_window]
         IN  SelectSeq(Append(bursts, burst),
                       LAMBDA b : BurstKept(b.timestamp, now))
    ELSE bursts

\* the pulses that can arrive: <<now, window_start_time,
\* activity_count_window>>. Before the first pulse the window is as
\* constructed (start 0, no pulse counted); later the window began at most
\* 30 seconds before the latest pulse, and a pulse that ends a pause comes
\* more than the paused seconds after it
Pulses ==
    IF last_activity_time = 0
    THEN {<<now, 0, 0>> : now \in FirstPulseTimes}
    ELSE {<<last_activity_time + gap, last_activity_time - lead, count>> :
              gap \in {g \in PulseGaps : state = "PAUSED" => g > paused_ticks},
              lead \in WindowLeads, count \in WindowCounts}

\* no document is tracked: the timer as constructed, no pulse seen
NothingPending ==
    /\ state = "STOPPED"
    /\ total_seconds = 0
    /\ buffer_seconds = 0
    /\ idle_seconds = 0
    /\ last_auto_decision = None
    /\ tick_timer = FALSE
    /\ buffer_timer = FALSE
    /\ signals = <<>>
    /\ ticks = 0
    /\ paused_ticks = 0
    /\ cognitive_dialog = FALSE
    /\ cognitive_notification = FALSE
    /\ last_activity_time = 0
    /\ current_doc_id = FALSE
    /\ current_file_hash = NoProject

\* a document is open and a decision request is pending with its dialog
\* open: the timer ran, paused for idle_seconds and asked on the pulse
DecisionPending ==
    /\ state = "COGNITIVE_CHECK"
    /\ total_seconds \in StartTotals
    /\ buffer_seconds = 0
    /\ idle_seconds \in PendingIdles
    /\ last_auto_decision = None
    /\ tick_timer = TRUE
    /\ buffer_timer = FALSE
    /\ signals = <<>>
    /\ ticks = 0
    /\ paused_ticks = 0
    /\ cognitive_dialog = TRUE
    /\ cognitive_notification = FALSE
    /\ last_activity_time \in LastPulseTimes
    /\ current_doc_id = TRUE
    /\ current_file_hash \in ProjectInputs

\* a document is open and a pause is under way: the timer ran, the idle
\* check and the buffer expiry put it in PAUSED, and the tick timer has
\* fired idle_seconds times since
PauseUnderWay ==
    /\ state = "PAUSED"
    /\ total_seconds \in StartTotals
    /\ buffer_seconds = 0
    /\ idle_seconds \in PausedIdles
    /\ idle_seconds <= TLimitSeconds(t_limit_minutes)
    /\ last_auto_decision = None
    /\ tick_timer = TRUE
    /\ buffer_timer = FALSE
    /\ signals = <<>>
    /\ ticks = 0
    /\ paused_ticks = idle_seconds
    /\ cognitive_dialog = FALSE
    /\ cognitive_notification = FALSE
    /\ last_activity_time \in LastPulseTimes
    /\ current_doc_id = TRUE
    /\ current_file_hash \in ProjectInputs

\* createActions: T_limit is loaded from the settings through the timer's
\* setter, the profile is loaded by from_dict and given the stored bias and
\* opt-in, and the decision callback is set; a session is started when a
\* document is opened
InitExtension ==
    /\ stored_t_limit \in StoredTLimits
    /\ t_limit_minutes = ClampTLimit(stored_t_limit)
    /\ has_callback = TRUE
    /\ NothingPending \/ DecisionPending \/ PauseUnderWay
    /\ call = Call("createActions")
    /\ ops = 0
    /\ \E i \in 0..Len(DictSamples), bias \in StoredBiases,
          trust \in BOOLEAN :
        \E bursts \in IF state = "PAUSED" THEN BurstSamples ELSE {<<>>} :
            ProfileLoadedIn(current_doc_id, bursts,
                            IF i = 0 THEN <<>> ELSE DictSamples[i],
                            Clamp(-Scale, bias, Scale), trust)

\* _handle_saved_document (project_hash is the file's hash) or
\* _handle_unsaved_document (no hash), after _check_document has taken the
\* document found as the current one: set_total_seconds, whose time_updated
\* makes the modifier of a saved document, start, which acts in STOPPED
\* only, and start_session, which counts the session of a known project
HandleDocument(project_hash, existing_time) ==
        /\ current_doc_id' = TRUE
        /\ current_file_hash' = project_hash
        /\ total_seconds' = Max(0, existing_time)
        /\ IF state = "STOPPED"
           THEN state' = "RUNNING" /\ tick_timer' = TRUE
           ELSE UNCHANGED <<state, tick_timer>>
        /\ signals' = TimeUpdated(total_seconds')
                         \o StateChanged(state, "RUNNING")
        /\ call' = [Call("_check_document") EXCEPT !.arg = <<project_hash>>]
        /\ session_started' = TRUE
        /\ focus_lost_count' = 0
        /\ activity_bursts' = <<>>
        /\ project_modifiers' =
               SessionCounted(WorkTimeUpdated(project_modifiers,
                                              project_hash, total_seconds'),
                              project_hash)
        /\ UNCHANGED <<buffer_seconds, idle_seconds, t_limit_minutes,
                       has_callback, last_auto_decision, buffer_timer, ticks,
                       paused_ticks>>
        /\ UNCHANGED <<buckets, recent_pauses, consecutive_validated,
                       consecutive_rejected, total_validations,
                       total_rejections, longest_validated_streak,
                       current_streak, repeated_rejection_patterns,
                       user_bias, implicit_trust_enabled>>
        /\ UNCHANGED <<stored_t_limit, cognitive_dialog,
                       cognitive_notification, last_activity_time>>

\* _check_document finding a document when none is tracked
ExtDocumentOpened ==
    \E project_hash \in ProjectInputs, existing_time \in ExistingTimes :
        /\ ~current_doc_id
        /\ ops < MaxOps
        /\ ops' = ops + 1
        /\ HandleDocument(project_hash, existing_time)

\* _check_document finding another document than the tracked one (its
\* root UUID differs): the progress is saved and the new document handled
ExtDocumentSwitched ==
    \E project_hash \in ProjectInputs, existing_time \in ExistingTimes :
        /\ current_doc_id
        /\ ops < MaxOps
        /\ ops' = ops + 1
        /\ HandleDocument(project_hash, existing_time)

\* _check_document finding no document while one is tracked: the progress
\* is saved, the document and its hash are forgotten, stop() and
\* set_total_seconds(0); the dialog and the notification stay as they are
ExtDocumentClosed ==
    /\ current_doc_id
    /\ ops < MaxOps
    /\ ops' = ops + 1
    /\ current_doc_id' = FALSE
    /\ current_file_hash' = NoProject
    /\ StopEffect
    /\ LeavePaused
    /\ total_seconds' = Max(0, 0)
    /\ signals' = StateChanged(state, "STOPPED") \o TimeUpdated(0)
    /\ call' = [Call("_check_document") EXCEPT !.arg = <<NoProject>>]
    /\ UNCHANGED <<t_limit_minutes, has_callback, last_auto_decision, ticks>>
    /\ UNCHANGED <<profileVars, stored_t_limit, cognitive_dialog,
                   cognitive_notification, last_activity_time>>

\* _on_activity, the slot of the activity monitor's pulse:
\* record_activity, and for a tracked document on_activity_detected with
\* _get_cognitive_decision as the callback; cognitive_check_needed opens
\* the dialog, cognitive_auto_decided shows the notification and records
\* the decision in the profile
ExtOnActivity(now, bursts, session_age, hour) ==
    /\ ops < MaxOps
    /\ ops' = ops + 1
    /\ last_activity_time' = now
    /\ UNCHANGED <<stored_t_limit, current_doc_id, current_file_hash>>
    /\ IF ~current_doc_id
       THEN /\ call' = Call("_on_activity")
            /\ signals' = <<>>
            /\ activity_bursts' = bursts
            /\ UNCHANGED <<timerCore, profileButBursts, cognitive_dialog,
                           cognitive_notification>>
       ELSE LET confidence ==
                    FinalConfidenceFrom(bursts, idle_seconds,
                                        current_file_hash,
                                        IF session_started THEN session_age
                                                           ELSE 0,
                                        hour)
                decision == Decide(TotalSamples(buckets), confidence)
            IN  /\ OnActivityDetected(confidence, decision)
                /\ cognitive_dialog' =
                       (cognitive_dialog \/ RequestsIn(signals') # <<>>)
                /\ cognitive_notification' =
                       (cognitive_notification
                            \/ AutoDecidedIn(signals') # <<>>)
                /\ IF AutoDecidedIn(signals') # <<>>
                   THEN RecordedWith(bursts,
                                     AutoDecidedIn(signals')[1].seconds,
                                     AutoDecidedIn(signals')[1].accepted,
                                     current_file_hash, WorkHash(signals'),
                                     total_seconds')
                   ELSE /\ activity_bursts' = bursts
                        /\ UNCHANGED profileButBursts

ExtActivity ==
    \E pulse \in Pulses, session_age \in SessionAges, hour \in Hours :
        ExtOnActivity(pulse[1],
                      RecordActivity(activity_bursts, pulse[2], pulse[3],
                                     pulse[1]),
                      session_age, hour)

\* the flag recorded for an undone decision
UndoneFlag_Same(was_accepted) == was_accepted

UndoneFlag(was_accepted) == ~was_accepted

\* _on_notification_undo, the slot of the notification's undo_requested;
\* the signal may arrive whenever a notification is held
ExtNotificationUndo ==
    /\ cognitive_notification
    /\ UndoLastAutoDecision
    /\ IF last_auto_decision # None
       THEN RecordedWith(activity_bursts, last_auto_decision[2],
                         UndoneFlag(last_auto_decision[1]),
                         current_file_hash, WorkHash(signals'),
                         total_seconds')
       ELSE UNCHANGED profileVars
    /\ UNCHANGED <<ops, extensionVars>>

\* _on_cognitive_response(was_thinking), the slot of the dialog's
\* response_given: record_validation, adjust_t_limit, the timer's setter,
\* the timer's on_cognitive_response and, through time_updated,
\* update_project_work_time
ExtOnCognitiveResponse(was_thinking) ==
    LET new_limit == AdjustedTLimit(stored_t_limit,
                                    IF was_thinking THEN 1 ELSE -1)
    IN  /\ cognitive_dialog
        /\ ops < MaxOps
        /\ ops' = ops + 1
        /\ call' = [Call("_on_cognitive_response") EXCEPT
                       !.flag = was_thinking,
                       !.arg = <<current_file_hash>>]
        /\ stored_t_limit' = new_limit
        /\ t_limit_minutes' = ClampTLimit(new_limit)
        /\ CognitiveResponseEffect(was_thinking)
        /\ RecordValidationAnd(idle_seconds, was_thinking,
                               current_file_hash, WorkHash(signals'),
                               total_seconds')
        /\ cognitive_dialog' = FALSE
        /\ UNCHANGED <<cognitive_notification, last_activity_time,
                       current_doc_id, current_file_hash>>

ExtCognitiveResponse ==
    \E was_thinking \in BOOLEAN : ExtOnCognitiveResponse(was_thinking)

\* _on_focus_changed(has_focus), the slot of the activity monitor's
\* focus_changed
ExtOnFocusChanged(has_focus) ==
    /\ ops < MaxOps
    /\ ops' = ops + 1
    /\ IF has_focus
       THEN RecordFocusRegained
       ELSE focus_lost_count < 2 * MaxFocusLost /\ RecordFocusLost
    /\ call' = [Call("_on_focus_changed") EXCEPT !.flag = has_focus]
    /\ signals' = <<>>
    /\ UNCHANGED <<timerCore, extensionVars>>

ExtFocusChanged == \E has_focus \in BOOLEAN : ExtOnFocusChanged(has_focus)

\* _check_idle, fired every second: it returns at once while no pulse was
\* ever seen; more than IDLE_THRESHOLD after the last pulse, with the timer
\* RUNNING, it calls on_activity_stopped
ExtCheckIdle ==
    /\ last_activity_time # 0
    /\ state = "RUNNING"
    /\ OnActivityStopped
    /\ UNCHANGED <<profileVars, ops, extensionVars>>

\* the tick timer fires: _on_tick and, through time_updated,
\* update_project_work_time for the current file hash
ExtTick ==
    /\ OnTick
    /\ project_modifiers' =
           WorkTimeUpdated(project_modifiers, WorkHash(signals'),
                           total_seconds')
    /\ UNCHANGED <<profileButModifiers, ops, extensionVars>>

\* the buffer timer fires
ExtBufferExpired ==
    /\ OnBufferExpired
    /\ UNCHANGED <<profileVars, ops, extensionVars>>

NextExtension ==
    \/ ExtDocumentOpened
    \/ ExtDocumentSwitched
    \/ ExtDocumentClosed
    \/ ExtActivity
    \/ ExtNotificationUndo
    \/ ExtCognitiveResponse
    \/ ExtFocusChanged
    \/ ExtCheckIdle
    \/ ExtTick
    \/ ExtBufferExpired

SpecExtension == InitExtension /\ [][NextExtension]_vars

\* the idle check, the tick timer and the buffer timer keep firing
FairSpecExtension ==
    /\ SpecExtension
    /\ WF_vars(ExtCheckIdle)
    /\ WF_vars(ExtTick)
    /\ WF_vars(ExtBufferExpired)

----------------------------------------------------------------------------
(* A profile that is constructed and then only fed record_validation *)

\* the pauses recorded: <<idle_seconds, was_validated>>
SampleInputs == {<<90, TRUE>>, <<90, FALSE>>, <<600, TRUE>>, <<2000, FALSE>>}

\* CognitiveProfile.__init__: nothing recorded yet
InitSamples ==
    /\ TimerConstructed
    /\ ops = 0
    /\ ExtensionConstructed
    /\ ProfileConstructed(<<>>)

\* record_validation(idle_seconds, was_validated); ops counts the calls.
\* The first FreeSamples calls take any input, later calls repeat the input
\* of the call before except at every SampleRun-th call
SampleRecorded ==
    \E input \in SampleInputs :
        /\ ops < MaxSamples
        /\ IF ops < FreeSamples \/ ops % SampleRun = 0
           THEN TRUE
           ELSE LET last == recent_pauses[Len(recent_pauses)]
                IN  /\ last.duration_seconds = input[1]
                    /\ last.was_validated = input[2]
        /\ ops' = ops + 1
        /\ RecordValidation(input[1], input[2], NoProject)
        /\ call' = [Call("record_validation") EXCEPT
                       !.arg = <<input[1], input[2], NoProject>>]
        /\ signals' = <<>>
        /\ UNCHANGED <<timerCore, extensionVars>>

NextSamples == SampleRecorded

SpecSamples == InitSamples /\ [][NextSamples]_vars

\* calculate_confidence(idle_seconds) between two records, at noon in a
\* session that has just started
SampleConfidence ==
    \E input \in SampleInputs :
        /\ CalculateConfidence(input[1], NoProject, 0, 12)
        /\ signals' = <<>>
        /\ UNCHANGED <<ops, timerCore, extensionVars>>

NextSampled == SampleRecorded \/ SampleConfidence

\* the same profile, read by calculate_confidence between the records
SpecSampled == InitSamples /\ [][NextSampled]_vars

----------------------------------------------------------------------------
(* C1: while the bucket total_counts sum to less than 10,
   calculate_confidence returns ASK_USER, whatever the idle duration,
   project, bias, streak, focus-lost count and intensity. *)
C1_FewSamplesAsk ==
    (call.op = "calculate_confidence"
        /\ TotalSamples(buckets) < MIN_SAMPLES_FOR_AUTO)
    => call.decision = "ASK_USER"

\* nine samples and a confidence that would auto-accept
C1_Witness ==
    /\ call.op = "calculate_confidence"
    /\ TotalSamples(buckets) = 9
    /\ call.confidence >= AUTO_ACCEPT_THRESHOLD
    /\ call.decision = "ASK_USER"

----------------------------------------------------------------------------
(* C2: without a decision callback, a pulse in PAUSED with idle within
   T_limit*60 moves the timer to COGNITIVE_CHECK and raises one decision
   request carrying the idle seconds; total, idle and the undo slot are
   unchanged and no auto-decision is raised. *)
C2_NoCallbackAsks ==
    [][ (PulseWithinLimit /\ ~has_callback) =>
          /\ state' = "COGNITIVE_CHECK"
          /\ total_seconds' = total_seconds
          /\ idle_seconds' = idle_seconds
          /\ last_auto_decision' = last_auto_decision
          /\ Len(RequestsIn(signals')) = 1
          /\ RequestsIn(signals')[1].idle = idle_seconds
          /\ AutoDecidedIn(signals') = <<>> ]_vars

C2_Witness ==
    /\ call.op = "on_activity_detected"
    /\ ~has_callback
    /\ state = "COGNITIVE_CHECK"
    /\ idle_seconds > 0
    /\ Len(RequestsIn(signals)) = 1
    /\ RequestsIn(signals)[1].idle = idle_seconds

----------------------------------------------------------------------------
\* the step is a run of undo_last_auto_decision
UndoStep == call'.op = "undo_last_auto_decision"

\* the step is a run of on_cognitive_response
ResponseStep == call'.op = "on_cognitive_response"

\* the step raises exactly one auto-decision event, carrying (acc, secs, conf)
RaisesAutoDecided(acc, secs, conf) ==
    /\ Len(AutoDecidedIn(signals')) = 1
    /\ AutoDecidedIn(signals')[1].accepted = acc
    /\ AutoDecidedIn(signals')[1].seconds = secs
    /\ AutoDecidedIn(signals')[1].confidence = conf

(* C3: after more than T_limit*60 ticks in PAUSED without a pulse, the next
   pulse returns the timer to RUNNING with total unchanged and raises
   neither a decision request nor an auto-decision. *)
C3_LongPauseDiscarded ==
    [][ (PulseStep /\ state = "PAUSED"
            /\ paused_ticks > TLimitSeconds(t_limit_minutes)) =>
          /\ state' = "RUNNING"
          /\ total_seconds' = total_seconds
          /\ Len(RequestsIn(signals')) = 0
          /\ Len(AutoDecidedIn(signals')) = 0 ]_vars

----------------------------------------------------------------------------
(* C4 as stated: the first undo after an auto-decision on s seconds returns
   (accepted, s) and changes total by exactly -s for an accept and +s for a
   discard; an undo on an empty slot returns None and leaves total
   unchanged. *)
C4_UndoExact ==
    [][ UndoStep =>
          IF last_auto_decision = None
          THEN /\ call'.ret = None
               /\ total_seconds' = total_seconds
          ELSE /\ call'.ret = <<last_auto_decision[1], last_auto_decision[2]>>
               /\ total_seconds' =
                    IF last_auto_decision[1]
                    THEN total_seconds - last_auto_decision[2]
                    ELSE total_seconds + last_auto_decision[2]
               /\ last_auto_decision' = None ]_vars

(* C4, amended: the first undo after an auto-decision on s seconds returns
   (accepted, s), clears the slot and sets total to max(0, total - s) for an
   accept and to total + s for a discard; an undo on an empty slot returns
   None and leaves total unchanged; an empty slot is filled only by a pulse
   that raises an auto-decision. *)
C4_UndoClamped ==
    [][ /\ UndoStep =>
             IF last_auto_decision = None
             THEN /\ call'.ret = None
                  /\ total_seconds' = total_seconds
                  /\ last_auto_decision' = None
             ELSE /\ call'.ret = <<last_auto_decision[1],
                                   last_auto_decision[2]>>
                  /\ total_seconds' =
                       IF last_auto_decision[1]
                       THEN IF total_seconds >= last_auto_decision[2]
                            THEN total_seconds - last_auto_decision[2]
                            ELSE 0
                       ELSE total_seconds + last_auto_decision[2]
                  /\ last_auto_decision' = None
        /\ (last_auto_decision = None /\ last_auto_decision' # None) =>
             (PulseStep /\ Len(AutoDecidedIn(signals')) = 1) ]_vars

\* an accepted decision was undone when total had fallen below its seconds
C4_Witness ==
    /\ call.op = "undo_last_auto_decision"
    /\ call.prev # None
    /\ call.prev[1]
    /\ call.prev[2] > 0
    /\ call.ret = <<TRUE, call.prev[2]>>
    /\ call.total < call.prev[2]
    /\ total_seconds = 0
    /\ last_auto_decision = None

----------------------------------------------------------------------------
(* C5: the undo slot holds one decision: an auto-decision made while the
   slot is occupied replaces the slot by its own (accepted, idle,
   confidence) and changes total by its own effect only, and an undo then
   reverses the slot's decision only. *)
C5_SlotHoldsLast ==
    [][ /\ (PulseStep /\ last_auto_decision # None
                /\ Len(AutoDecidedIn(signals')) > 0) =>
             /\ Len(AutoDecidedIn(signals')) = 1
             /\ last_auto_decision' =
                  << AutoDecidedIn(signals')[1].accepted,
                     AutoDecidedIn(signals')[1].seconds,
                     AutoDecidedIn(signals')[1].confidence >>
             /\ AutoDecidedIn(signals')[1].seconds = idle_seconds
             /\ total_seconds' =
                  IF AutoDecidedIn(signals')[1].accepted
                  THEN total_seconds + idle_seconds
                  ELSE total_seconds
        /\ (UndoStep /\ last_auto_decision # None) =>
             /\ call'.ret = <<last_auto_decision[1], last_auto_decision[2]>>
             /\ total_seconds' =
                  IF last_auto_decision[1]
                  THEN Max(0, total_seconds - last_auto_decision[2])
                  ELSE total_seconds + last_auto_decision[2]
             /\ last_auto_decision' = None ]_vars

\* a second auto-decision has replaced a first one that was not undone
C5_Witness ==
    /\ call.op = "on_activity_detected"
    /\ call.prev # None
    /\ last_auto_decision # None
    /\ call.prev[2] > 0
    /\ call.prev[1] # last_auto_decision[1]
    /\ call.prev[2] # last_auto_decision[2]
    /\ Len(AutoDecidedIn(signals)) = 1

----------------------------------------------------------------------------
(* C6: in COGNITIVE_CHECK, a pulse, a tick, an activity-stopped signal and
   a buffer expiry leave state, total and idle unchanged and raise no
   decision request; the state is left only by on_cognitive_response, stop
   or reset. *)
C6_CheckWaits ==
    [][ state = "COGNITIVE_CHECK" =>
          /\ call'.op \in {"on_activity_detected", "_on_tick",
                           "on_activity_stopped", "_on_buffer_expired"} =>
               /\ state' = state
               /\ total_seconds' = total_seconds
               /\ idle_seconds' = idle_seconds
               /\ Len(RequestsIn(signals')) = 0
               /\ Len(AutoDecidedIn(signals')) = 0
          /\ state' # "COGNITIVE_CHECK" =>
               call'.op \in {"on_cognitive_response", "stop", "reset"} ]_vars

\* a tick fired while a decision on idle time was pending
C6_Witness ==
    /\ call.op = "_on_tick"
    /\ call.from = "COGNITIVE_CHECK"
    /\ state = "COGNITIVE_CHECK"
    /\ idle_seconds > 0
    /\ idle_seconds = call.idle

----------------------------------------------------------------------------
(* C7: on_cognitive_response in a state other than COGNITIVE_CHECK leaves
   state, total, idle and the undo slot unchanged. *)
C7_ResponseOnce ==
    [][ (ResponseStep /\ state # "COGNITIVE_CHECK") =>
          /\ state' = state
          /\ total_seconds' = total_seconds
          /\ idle_seconds' = idle_seconds
          /\ last_auto_decision' = last_auto_decision ]_vars

\* an accepting response arrived in PAUSED with idle time pending
C7_Witness ==
    /\ call.op = "on_cognitive_response"
    /\ call.flag
    /\ call.from = "PAUSED"
    /\ state = "PAUSED"
    /\ idle_seconds > 0

----------------------------------------------------------------------------
(* C8: a pulse in PAUSED with idle s within T_limit*60 for which the
   callback returns AUTO_ACCEPT with confidence c adds s to total, zeroes
   idle, moves to RUNNING, sets the undo slot to (TRUE, s, c) and raises one
   auto-decision event carrying (TRUE, s, c). *)
C8_AutoAccept ==
    [][ (PulseWithinLimit /\ has_callback
            /\ call'.decision = "AUTO_ACCEPT") =>
          /\ total_seconds' = total_seconds + idle_seconds
          /\ idle_seconds' = 0
          /\ state' = "RUNNING"
          /\ last_auto_decision' = <<TRUE, idle_seconds, call'.confidence>>
          /\ RaisesAutoDecided(TRUE, idle_seconds, call'.confidence)
          /\ Len(RequestsIn(signals')) = 0 ]_vars

C8_Witness ==
    /\ call.op = "on_activity_detected"
    /\ call.decision = "AUTO_ACCEPT"
    /\ call.from = "PAUSED"
    /\ call.idle > 0
    /\ state = "RUNNING"
    /\ idle_seconds = 0
    /\ last_auto_decision = <<TRUE, call.idle, call.confidence>>

----------------------------------------------------------------------------
(* C9: a pulse in PAUSED with idle s within T_limit*60 for which the
   callback returns AUTO_DISCARD with confidence c leaves total unchanged,
   zeroes idle, moves to RUNNING, sets the undo slot to (FALSE, s, c) and
   raises one auto-decision event carrying (FALSE, s, c). *)
C9_AutoDiscard ==
    [][ (PulseWithinLimit /\ has_callback
            /\ call'.decision = "AUTO_DISCARD") =>
          /\ total_seconds' = total_seconds
          /\ idle_seconds' = 0
          /\ state' = "RUNNING"
          /\ last_auto_decision' = <<FALSE, idle_seconds, call'.confidence>>
          /\ RaisesAutoDecided(FALSE, idle_seconds, call'.confidence)
          /\ Len(RequestsIn(signals')) = 0 ]_vars

C9_Witness ==
    /\ call.op = "on_activity_detected"
    /\ call.decision = "AUTO_DISCARD"
    /\ call.from = "PAUSED"
    /\ call.idle > 0
    /\ state = "RUNNING"
    /\ idle_seconds = 0
    /\ last_auto_decision = <<FALSE, call.idle, call.confidence>>

----------------------------------------------------------------------------
(* C10: when the callback returns ASK_USER the timer enters COGNITIVE_CHECK
   keeping idle s and raises one decision request carrying (s, confidence);
   on_cognitive_response in COGNITIVE_CHECK moves to RUNNING with idle 0 and
   total increased by s if accepted and unchanged if rejected; neither step
   touches the undo slot. *)
C10_AskThenAnswer ==
    [][ /\ (PulseWithinLimit /\ has_callback
                /\ call'.decision = "ASK_USER") =>
             /\ state' = "COGNITIVE_CHECK"
             /\ idle_seconds' = idle_seconds
             /\ total_seconds' = total_seconds
             /\ last_auto_decision' = last_auto_decision
             /\ Len(RequestsIn(signals')) = 1
             /\ RequestsIn(signals')[1].idle = idle_seconds
             /\ RequestsIn(signals')[1].confidence = call'.confidence
             /\ Len(AutoDecidedIn(signals')) = 0
        /\ (ResponseStep /\ state = "COGNITIVE_CHECK") =>
             /\ state' = "RUNNING"
             /\ idle_seconds' = 0
             /\ total_seconds' = IF call'.flag
                                 THEN total_seconds + idle_seconds
                                 ELSE total_seconds
             /\ last_auto_decision' = last_auto_decision ]_vars

\* a rejecting response closed a decision request on pending idle time
C10_Witness ==
    /\ call.op = "on_cognitive_response"
    /\ ~call.flag
    /\ call.from = "COGNITIVE_CHECK"
    /\ call.idle > 0
    /\ has_callback
    /\ state = "RUNNING"
    /\ idle_seconds = 0

----------------------------------------------------------------------------
(* C11: with at least 10 samples in the buckets, calculate_confidence
   returns AUTO_ACCEPT exactly when the clamped confidence is at least 0.85,
   AUTO_DISCARD exactly when it is at most 0.20 and ASK_USER otherwise; no
   confidence meets both thresholds. *)
C11_DecisionByThresholds ==
    (call.op = "calculate_confidence"
        /\ TotalSamples(buckets) >= MIN_SAMPLES_FOR_AUTO) =>
      /\ call.decision = "AUTO_ACCEPT"
           <=> call.confidence >= AUTO_ACCEPT_THRESHOLD
      /\ call.decision = "AUTO_DISCARD"
           <=> call.confidence <= AUTO_DISCARD_THRESHOLD
      /\ call.decision = "ASK_USER"
           <=> (call.confidence > AUTO_DISCARD_THRESHOLD
                  /\ call.confidence < AUTO_ACCEPT_THRESHOLD)
      /\ ~(call.confidence >= AUTO_ACCEPT_THRESHOLD
             /\ call.confidence <= AUTO_DISCARD_THRESHOLD)

\* a low confidence on enough samples was discarded automatically
C11_Witness ==
    /\ call.op = "calculate_confidence"
    /\ TotalSamples(buckets) >= MIN_SAMPLES_FOR_AUTO
    /\ call.confidence > 0
    /\ call.confidence <= AUTO_DISCARD_THRESHOLD
    /\ call.decision = "AUTO_DISCARD"

----------------------------------------------------------------------------
\* the step is a run of _on_tick
TickStep == call'.op = "_on_tick"

(* C12: the tick timer runs in RUNNING and in BUFFER and each of its ticks
   there adds 1 to total and keeps the state; a pulse in BUFFER stops the
   buffer timer, zeroes the buffer counter and returns to RUNNING with total
   unchanged and nothing asked or decided. *)
C12_BufferCounts ==
    [][ /\ state \in {"RUNNING", "BUFFER"} => tick_timer
        /\ state = "BUFFER" => buffer_timer
        /\ (TickStep /\ state \in {"RUNNING", "BUFFER"}) =>
             /\ total_seconds' = total_seconds + 1
             /\ state' = state
        /\ (PulseStep /\ state = "BUFFER") =>
             /\ state' = "RUNNING"
             /\ total_seconds' = total_seconds
             /\ ~buffer_timer'
             /\ tick_timer'
             /\ buffer_seconds' = 0
             /\ Len(RequestsIn(signals')) = 0
             /\ Len(AutoDecidedIn(signals')) = 0 ]_vars

\* a pulse ended a buffer period in which every tick so far was counted
C12_Witness ==
    /\ call.op = "on_activity_detected"
    /\ call.from = "BUFFER"
    /\ state = "RUNNING"
    /\ ~buffer_timer
    /\ ticks >= 2
    /\ total_seconds = ticks
    /\ total_seconds = call.total

----------------------------------------------------------------------------
\* the step is a run of _on_buffer_expired
ExpiryStep == call'.op = "_on_buffer_expired"

(* C13: a buffer expiry in BUFFER moves to PAUSED with idle 0 and total
   unchanged; a buffer expiry in any other state changes nothing; a tick in
   PAUSED leaves total and the state unchanged. *)
C13_ExpiryPauses ==
    [][ /\ (ExpiryStep /\ state = "BUFFER") =>
             /\ state' = "PAUSED"
             /\ idle_seconds' = 0
             /\ total_seconds' = total_seconds
        /\ (ExpiryStep /\ state # "BUFFER") =>
             /\ signals' = <<>>
             /\ UNCHANGED <<state, total_seconds, idle_seconds,
                            buffer_seconds, last_auto_decision, tick_timer,
                            buffer_timer, t_limit_minutes>>
        /\ (TickStep /\ state = "PAUSED") =>
             /\ total_seconds' = total_seconds
             /\ state' = "PAUSED" ]_vars

\* the first tick of a pause that a buffer expiry opened after counted time
C13_Witness ==
    /\ call.op = "_on_tick"
    /\ call.from = "PAUSED"
    /\ state = "PAUSED"
    /\ paused_ticks = 1
    /\ idle_seconds = 1
    /\ total_seconds >= 1
    /\ total_seconds = call.total

----------------------------------------------------------------------------
(* C14 as stated: each tick in PAUSED adds 1 to idle, and once idle exceeds
   T_limit*60 the next tick resets it to 0; the state stays PAUSED and total
   is unchanged. *)
C14_ResetOnNextTick ==
    [][ (TickStep /\ state = "PAUSED") =>
          /\ state' = "PAUSED"
          /\ total_seconds' = total_seconds
          /\ idle_seconds' =
               IF idle_seconds > TLimitSeconds(t_limit_minutes)
               THEN 0 ELSE idle_seconds + 1 ]_vars

(* C14, amended: a tick in PAUSED adds 1 to idle unless idle + 1 exceeds
   T_limit*60, and then that same tick sets idle to 0; the state stays
   PAUSED and total is unchanged. *)
C14_ResetInSameTick ==
    [][ (TickStep /\ state = "PAUSED") =>
          /\ state' = "PAUSED"
          /\ total_seconds' = total_seconds
          /\ idle_seconds' =
               IF idle_seconds + 1 > TLimitSeconds(t_limit_minutes)
               THEN 0 ELSE idle_seconds + 1 ]_vars

\* a tick found idle at T_limit*60 and left it at 0
C14_Witness ==
    /\ call.op = "_on_tick"
    /\ call.from = "PAUSED"
    /\ call.idle = TLimitSeconds(t_limit_minutes)
    /\ state = "PAUSED"
    /\ idle_seconds = 0
    /\ total_seconds = call.total

----------------------------------------------------------------------------
(* C15: stop() from any state leaves STOPPED with both timers inactive,
   idle 0, the buffer counter 0 and total unchanged; reset() does the same
   and sets total to 0; in STOPPED both timers are inactive and idle is 0,
   a tick changes neither total nor idle, and only start() or a pulse
   leaves the state. *)
C15_StopHalts ==
    [][ /\ call'.op \in {"stop", "reset"} =>
             /\ state' = "STOPPED"
             /\ ~tick_timer'
             /\ ~buffer_timer'
             /\ idle_seconds' = 0
             /\ buffer_seconds' = 0
             /\ total_seconds' = IF call'.op = "reset" THEN 0
                                                       ELSE total_seconds
        /\ state = "STOPPED" =>
             /\ ~tick_timer
             /\ ~buffer_timer
             /\ idle_seconds = 0
             /\ buffer_seconds = 0
             /\ TickStep =>
                  (total_seconds' = total_seconds
                     /\ idle_seconds' = idle_seconds)
             /\ state' # "STOPPED" =>
                  call'.op \in {"start", "on_activity_detected"} ]_vars

\* stop() ended a pause that had counted time and idle seconds
C15_Witness ==
    /\ call.op = "stop"
    /\ call.from = "PAUSED"
    /\ call.idle > 0
    /\ call.total > 0
    /\ state = "STOPPED"
    /\ total_seconds = call.total
    /\ idle_seconds = 0
    /\ ~tick_timer

----------------------------------------------------------------------------
(* C16: T_limit is within 15..25 in every state, and each user response
   moves it by +1 (was thinking) or -1 (otherwise), clamped to 15..25. *)
C16_TLimitNudged ==
    [][ /\ t_limit_minutes \in 15..25
        /\ t_limit_minutes' \in 15..25
        /\ call'.op = "_on_cognitive_response" =>
             t_limit_minutes' =
               Max(15, Min(25, t_limit_minutes
                                 + (IF call'.flag THEN 1 ELSE -1))) ]_vars

----------------------------------------------------------------------------
(* C17: every duration d >= 0 maps to exactly one of the five buckets
   [0,180), [180,420), [420,900), [900,1500), [1500,3600); a duration of
   3600 or more maps to the last one; the ranges are contiguous and do not
   overlap.  A pause that is recorded is counted in that bucket. *)

\* durations around every end of a range
BucketDurations ==
    {0, 1, 179, 180, 181, 419, 420, 421, 899, 900, 901, 1499, 1500, 1501,
     3599, 3600, 3601, 7200}

\* the ranges of BUCKET_RANGES that hold d
RangesHolding(d) ==
    {i \in DOMAIN BUCKET_RANGES :
        BUCKET_RANGES[i][1] <= d /\ d < BUCKET_RANGES[i][2]}

C17_BucketOf(d) ==
    CASE d < 180 -> "0-180"
      [] 180 <= d /\ d < 420 -> "180-420"
      [] 420 <= d /\ d < 900 -> "420-900"
      [] 900 <= d /\ d < 1500 -> "900-1500"
      [] 1500 <= d -> "1500-3600"

C17_RangesPartition ==
    /\ Len(BUCKET_RANGES) = 5
    /\ BUCKET_RANGES[1][1] = 0
    /\ \A i \in 1..4 : BUCKET_RANGES[i][2] = BUCKET_RANGES[i + 1][1]
    /\ \A d \in BucketDurations :
        /\ BucketKey(d) = C17_BucketOf(d)
        /\ Cardinality(RangesHolding(d)) = IF d < 3600 THEN 1 ELSE 0

C17_OneBucket ==
    [][ /\ C17_RangesPartition
        /\ (/\ call'.op = "record_validation"
            /\ (TotalSamples(buckets) + 1) % 50 # 0)
           => \A k \in BucketKeys :
                buckets'[k].total_count =
                    buckets[k].total_count
                      + (IF k = C17_BucketOf(call'.arg[1]) THEN 1 ELSE 0)
      ]_vars

\* a pause of 3600 seconds or more was counted in the last bucket
C17_Witness ==
    /\ call.op = "record_validation"
    /\ call.arg[1] >= 3600
    /\ buckets["1500-3600"].total_count = 1
    /\ TotalSamples(buckets) = 1

----------------------------------------------------------------------------
(* C18: in every bucket 0 <= validated_count <= total_count after any
   sequence of record_validation calls that starts from an empty profile,
   the truncating decay included: the empty profile has it, and a call of
   record_validation keeps it. *)

BucketsWithinTotal(bs) ==
    \A k \in BucketKeys :
        /\ 0 <= bs[k].validated_count
        /\ bs[k].validated_count <= bs[k].total_count

C18_ValidatedWithinTotal ==
    [][ /\ BucketsWithinTotal([k \in BucketKeys |-> EmptyBucket])
        /\ (call'.op = "record_validation" /\ BucketsWithinTotal(buckets))
           => BucketsWithinTotal(buckets') ]_vars

\* the fiftieth sample was recorded and the counts were decayed, in a
\* bucket that holds validated pauses
C18_Witness ==
    /\ call.op = "record_validation"
    /\ call.arg[1] = 90
    /\ call.arg[2] = TRUE
    /\ buckets["0-180"].total_count = 29
    /\ buckets["0-180"].validated_count = 19
    /\ buckets["1500-3600"].total_count = 18

----------------------------------------------------------------------------
(* C19: record_validation adds 1 to the total_count of the bucket of the
   pause, and 1 to its validated_count iff the pause was validated; when
   the sum of all total_count is then a positive multiple of 50, every
   bucket's total_count and validated_count are replaced by
   int(0.95 * value); otherwise no other bucket changes and no total_count
   decreases. *)
C19_DecayAtFifty ==
    [][ call'.op = "record_validation" =>
          LET key == BucketKey(call'.arg[1])
              t(k) == buckets[k].total_count + (IF k = key THEN 1 ELSE 0)
              v(k) == buckets[k].validated_count
                        + (IF k = key /\ call'.arg[2] THEN 1 ELSE 0)
              grand == TotalSamples(buckets) + 1
          IN  IF grand % 50 = 0
              THEN \A k \in BucketKeys :
                     /\ buckets'[k].total_count = (t(k) * 95) \div 100
                     /\ buckets'[k].validated_count = (v(k) * 95) \div 100
              ELSE \A k \in BucketKeys :
                     /\ buckets'[k].total_count = t(k)
                     /\ buckets'[k].validated_count = v(k)
                     /\ buckets'[k].total_count >= buckets[k].total_count
      ]_vars

\* the fiftieth sample, a rejected long pause, was recorded and every
\* bucket was decayed
C19_Witness ==
    /\ call.op = "record_validation"
    /\ call.arg[1] = 2000
    /\ call.arg[2] = FALSE
    /\ buckets["1500-3600"].total_count = 19
    /\ buckets["0-180"].total_count = 28
    /\ buckets["0-180"].validated_count = 19

----------------------------------------------------------------------------
(* C20: the two scores the profile hands out stay within [0, 1]: the
   confidence returned by calculate_confidence and the value returned by
   get_trust_level. *)
C20_ScoresInUnitRange ==
    /\ call.op = "calculate_confidence" =>
         (0 <= call.confidence /\ call.confidence <= Scale)
    /\ call.op = "get_trust_level" => (0 <= call.ret /\ call.ret <= Scale)

\* a confidence at the upper end of the range, from a profile of nine
\* validated pauses with full bias
C20_Witness ==
    /\ call.op = "calculate_confidence"
    /\ call.confidence = Scale
    /\ user_bias = Scale

\* a trust level strictly inside the range, from ten validated pauses
\* of which nine in a row: 0.4 * 0.1 + 0.4 * 1 + 9 / 50
C20_WitnessTrust ==
    /\ call.op = "get_trust_level"
    /\ total_validations = 10
    /\ call.ret = 6200

----------------------------------------------------------------------------
(* C21: should_use_notification returns true only if the implicit-trust
   opt-in is set and the trust level is at least 0.8; with fewer than 10
   validations plus rejections recorded the trust is 0 and it returns
   false. *)
C21_NotificationNeedsTrust ==
    call.op = "should_use_notification" =>
        /\ call.ret = TRUE =>
             (implicit_trust_enabled /\ 10 * GetTrustLevel >= 8 * Scale)
        /\ total_validations + total_rejections < 10 =>
             (GetTrustLevel = 0 /\ call.ret = FALSE)

\* notification mode is granted: opt-in, sixty validated pauses in a row
C21_Witness ==
    /\ call.op = "should_use_notification"
    /\ call.ret = TRUE
    /\ implicit_trust_enabled
    /\ total_validations >= 60

\* notification mode is refused to an opted-in profile of nine samples
C21_WitnessFew ==
    /\ call.op = "should_use_notification"
    /\ call.ret = FALSE
    /\ implicit_trust_enabled
    /\ total_validations + total_rejections = 9

----------------------------------------------------------------------------
(* C22: classify_pause applies its rules in order, the first match wins:
   a pause of at most 180 s after an intensity above 0.5 is MICRO_THINKING
   and a pause of 300 s to 720 s is PLANNING_PAUSE, whatever the recent
   rejections; CONTEXT_SWITCH, BREAK and UNKNOWN are returned only when
   neither of these two rules matches.  The pause that record_validation
   records carries that pattern. *)

\* durations at and next to the ends of the rules' ranges
ClassifyDurations ==
    {0, 90, 180, 181, 299, 300, 400, 599, 600, 720, 721, 900, 901, 2000}
\* intensities at and next to 0.5
ClassifyIntensities ==
    {0, Scale \div 2, Scale \div 2 + 1, (8 * Scale) \div 10, Scale}
\* the fields of recent pauses that classify_pause reads
PauseSeen(duration, validated) ==
    [duration_seconds |-> duration, was_validated |-> validated]
PauseHistories ==
    { <<>>,
      <<PauseSeen(90, FALSE)>>,
      <<PauseSeen(90, FALSE), PauseSeen(200, FALSE)>>,
      <<PauseSeen(90, FALSE), PauseSeen(90, TRUE), PauseSeen(299, FALSE)>>,
      <<PauseSeen(600, FALSE), PauseSeen(2000, FALSE)>>,
      <<PauseSeen(90, FALSE), PauseSeen(90, FALSE), PauseSeen(90, TRUE),
        PauseSeen(90, TRUE), PauseSeen(90, TRUE), PauseSeen(90, TRUE),
        PauseSeen(90, TRUE)>>,
      <<PauseSeen(10, FALSE), PauseSeen(20, FALSE), PauseSeen(30, FALSE),
        PauseSeen(40, FALSE), PauseSeen(50, FALSE)>> }

C22_Micro(d, x) == d <= 180 /\ 10 * x > 5 * Scale
C22_Planning(d) == 300 <= d /\ d <= 720
C22_Classified(d, x, pattern) ==
    /\ C22_Micro(d, x) => pattern = "MICRO_THINKING"
    /\ C22_Planning(d) => pattern = "PLANNING_PAUSE"
    /\ pattern \in {"CONTEXT_SWITCH", "BREAK", "UNKNOWN"} =>
         (~C22_Micro(d, x) /\ ~C22_Planning(d))

C22_AllClassified ==
    \A d \in ClassifyDurations, x \in ClassifyIntensities,
       h \in PauseHistories :
        C22_Classified(d, x, ClassifyPause(d, x, h))

C22_FirstMatchWins ==
    [][ /\ C22_AllClassified
        /\ call'.op = "record_validation" =>
             LET event == recent_pauses'[Len(recent_pauses')]
             IN  /\ event.duration_seconds = call'.arg[1]
                 /\ C22_Classified(event.duration_seconds,
                                   event.pre_pause_intensity, event.pattern)
      ]_vars

\* a pause of 600 s was recorded as PLANNING_PAUSE right after a short
\* pause at intensity 0.8 that was rejected and recorded as MICRO_THINKING
C22_Witness ==
    /\ call.op = "record_validation"
    /\ Len(recent_pauses) = 2
    /\ recent_pauses[1].duration_seconds = 90
    /\ recent_pauses[1].pre_pause_intensity = (8 * Scale) \div 10
    /\ ~recent_pauses[1].was_validated
    /\ recent_pauses[1].pattern = "MICRO_THINKING"
    /\ recent_pauses[2].duration_seconds = 600
    /\ recent_pauses[2].pattern = "PLANNING_PAUSE"

----------------------------------------------------------------------------
(* C23: a focus-lost or focus-regained signal changes only the profile's
   focus-lost counter, by +1 on a loss and by -0.5 floored at 0 on a
   regain (the counter is kept in halves); the timer's state, total, idle,
   T_limit and undo slot, and every other field of the profile, are left
   as they were, in every timer state. *)

profileButFocus ==
    <<buckets, recent_pauses, activity_bursts, session_started,
      consecutive_validated, consecutive_rejected, project_modifiers,
      total_validations, total_rejections, longest_validated_streak,
      current_streak, repeated_rejection_patterns, user_bias,
      implicit_trust_enabled>>

C23_FocusOnlyCounts ==
    [][ call'.op = "_on_focus_changed" =>
          /\ focus_lost_count' =
               IF call'.flag
               THEN (IF focus_lost_count >= 1 THEN focus_lost_count - 1
                                              ELSE 0)
               ELSE focus_lost_count + 2
          /\ UNCHANGED <<state, total_seconds, idle_seconds,
                         t_limit_minutes, last_auto_decision>>
          /\ UNCHANGED <<tick_timer, buffer_timer, buffer_seconds>>
          /\ UNCHANGED profileButFocus
      ]_vars

\* focus came back after one loss while a decision is pending: the counter
\* is left at 0.5
C23_Witness ==
    /\ call.op = "_on_focus_changed"
    /\ call.flag = TRUE
    /\ focus_lost_count = 1
    /\ state = "COGNITIVE_CHECK"

----------------------------------------------------------------------------
(* C24: every rate of the model is the neutral 0.5 when its denominator is
   zero: the validation rate of a bucket without samples, the validation
   rate of a project without validations and rejections, and the global
   validation rate that calculate_confidence blends into the base
   confidence when no validation and no rejection has been recorded; the
   base confidence of such a profile is then 0.5. *)
C24_NeutralRates ==
    /\ \A k \in BucketKeys :
         buckets[k].total_count = 0 =>
             BucketValidationRate(buckets[k]) = Scale \div 2
    /\ \A h \in DOMAIN project_modifiers :
         project_modifiers[h].total_validations
             + project_modifiers[h].total_rejections = 0 =>
             ProjectValidationRate(project_modifiers[h]) = Scale \div 2
    /\ total_validations + total_rejections = 0 =>
         /\ GlobalRate(total_validations, total_rejections) = Scale \div 2
         /\ \A k \in BucketKeys :
              buckets[k].total_count = 0 =>
                  BaseConfidence(buckets[k], total_validations,
                                 total_rejections) = Scale \div 2

----------------------------------------------------------------------------
(* C25: for a bucket of 12 samples, all validated, the validation rate is
   1.0, the Wilson lower bound is strictly between 0.5 and 1.0, and the
   base confidence that calculate_confidence derives for a duration in
   that bucket is strictly below 1.0. *)
C25_WilsonDampens ==
    \A k \in BucketKeys :
        (buckets[k].total_count = 12 /\ buckets[k].validated_count = 12) =>
            /\ BucketValidationRate(buckets[k]) = Scale
            /\ Scale \div 2 < BucketConfidence(buckets[k])
            /\ BucketConfidence(buckets[k]) < Scale
            /\ BaseConfidence(buckets[k], total_validations,
                              total_rejections) < Scale

----------------------------------------------------------------------------
(* C26: loading to_dict() of a profile into a fresh profile with
   from_dict() gives equal bucket counts, equal project modifiers and
   equal counters: global validations and rejections, longest streak, and
   the consecutive validated and rejected streaks. *)
C26_RoundTrip ==
    LET copy == FreshlyLoaded(ToDict)
    IN  /\ copy.buckets = buckets
        /\ copy.project_modifiers = project_modifiers
        /\ copy.total_validations = total_validations
        /\ copy.total_rejections = total_rejections
        /\ copy.longest_validated_streak = longest_validated_streak
        /\ copy.consecutive_validated = consecutive_validated
        /\ copy.consecutive_rejected = consecutive_rejected

----------------------------------------------------------------------------
(* C27: user_bias is within [-1, 1] in every profile state, after any
   set_user_bias and from_dict calls with any numeric input, so the bias
   factor 1 + 0.2 * user_bias lies in [0.8, 1.2]. *)
C27_BiasClamped ==
    /\ -Scale <= user_bias
    /\ user_bias <= Scale
    /\ (8 * Scale) \div 10 <= BiasAdjustment(user_bias)
    /\ BiasAdjustment(user_bias) <= (12 * Scale) \div 10

----------------------------------------------------------------------------
(* C28: while the timer is RUNNING and no further pulse arrives, the idle
   check eventually raises activity-stopped, the timer passes through
   BUFFER and reaches PAUSED, however RUNNING was entered, also by start()
   on opening a document before any pulse was received.  The pulses of a
   run are finitely many, so every RUNNING state is followed by a stretch
   without pulses: every RUNNING state leads to a PAUSED state, unless the
   document is closed first. *)

C28_IdleStops == (state = "RUNNING") ~> (state = "PAUSED" \/ ~current_doc_id)

----------------------------------------------------------------------------
(* C29: every automatic decision the timer applies is reported to the
   profile as exactly one learning update with the same idle seconds and
   the same accepted flag; a pulse without an automatic decision reports
   none.  An undo of the decision is reported as exactly one further update
   with the decision's idle seconds and the opposite flag; an undo that
   returns None changes nothing in the profile. *)

\* the step records exactly one pause of the given seconds and flag
LearningUpdate(seconds, flag) ==
    /\ total_validations' = total_validations + (IF flag THEN 1 ELSE 0)
    /\ total_rejections' = total_rejections + (IF flag THEN 0 ELSE 1)
    /\ recent_pauses' # <<>>
    /\ recent_pauses'[Len(recent_pauses')].duration_seconds = seconds
    /\ recent_pauses'[Len(recent_pauses')].was_validated = flag
    /\ Len(recent_pauses') = Min(Len(recent_pauses) + 1, MaxRecentPauses)

\* the step records no pause
NoLearningUpdate ==
    UNCHANGED <<buckets, recent_pauses, total_validations, total_rejections,
                consecutive_validated, consecutive_rejected, current_streak>>

C29_DecisionsReported ==
    [][ /\ (PulseStep /\ AutoDecidedIn(signals') # <<>>) =>
              /\ Len(AutoDecidedIn(signals')) = 1
              /\ AutoDecidedIn(signals')[1].seconds = idle_seconds
              /\ last_auto_decision' # None
              /\ last_auto_decision'[1] = AutoDecidedIn(signals')[1].accepted
              /\ last_auto_decision'[2] = idle_seconds
              /\ LearningUpdate(idle_seconds, last_auto_decision'[1])
        /\ (PulseStep /\ AutoDecidedIn(signals') = <<>>) => NoLearningUpdate
        /\ (UndoStep /\ call'.ret # None) =>
              /\ last_auto_decision # None
              /\ call'.ret = <<last_auto_decision[1], last_auto_decision[2]>>
              /\ LearningUpdate(last_auto_decision[2],
                                ~last_auto_decision[1])
        /\ (UndoStep /\ call'.ret = None) => UNCHANGED profileVars ]_vars

\* an automatic decision was applied and then undone: the last two pauses
\* recorded have the same seconds and opposite flags
C29_Witness ==
    /\ call.op = "undo_last_auto_decision"
    /\ call.ret # None
    /\ Len(recent_pauses) >= 2
    /\ recent_pauses[Len(recent_pauses)].duration_seconds = call.ret[2]
    /\ recent_pauses[Len(recent_pauses) - 1].duration_seconds = call.ret[2]
    /\ recent_pauses[Len(recent_pauses)].was_validated = ~call.ret[1]
    /\ recent_pauses[Len(recent_pauses) - 1].was_validated = call.ret[1]

\* an undo found no decision to undo
C29_WitnessNone ==
    /\ call.op = "undo_last_auto_decision"
    /\ call.ret = None
    /\ cognitive_notification

----------------------------------------------------------------------------
(* C30: the timer applies an automatic decision with only a notification,
   without a decision request, only in profile states where notification
   mode is permitted: the implicit-trust opt-in is set and the trust level
   is at least 0.8.  In every other profile state a pulse that ends an idle
   period applies no automatic decision. *)

C30_NotificationPermitted ==
    [][ (PulseStep /\ AutoDecidedIn(signals') # <<>>) =>
            ShouldUseNotification ]_vars

----------------------------------------------------------------------------
(* C31: decay is applied every 50 recorded samples: starting from an empty
   profile, a call of record_validation that decays the buckets is the
   50th, 100th, ... call, so two decay steps are 50 calls apart. *)

\* the step is a record_validation that finds the bucket sum at a positive
\* multiple of 50 and decays
DecayStep ==
    /\ call'.op = "record_validation"
    /\ (TotalSamples(buckets) + 1) % 50 = 0

C31_DecayEveryFifty ==
    [][ DecayStep => (total_validations' + total_rejections') % 50 = 0 ]_vars

----------------------------------------------------------------------------
(* C32: after any sequence of record_validation calls at most one of the
   consecutive-validated and consecutive-rejected counters is non-zero, and
   the longest validated streak is at least the current streak and the
   consecutive-validated counter; a validation zeroes the rejected streak,
   a rejection zeroes the validated streak and the current streak, and the
   longest validated streak never decreases. *)

StreaksExclusive ==
    /\ consecutive_validated = 0 \/ consecutive_rejected = 0
    /\ longest_validated_streak >= current_streak
    /\ longest_validated_streak >= consecutive_validated

C32_Streaks ==
    /\ []StreaksExclusive
    /\ [][ call'.op = "record_validation" =>
          /\ longest_validated_streak' >= longest_validated_streak
          /\ IF call'.arg[2]
             THEN /\ consecutive_rejected' = 0
                  /\ consecutive_validated' = consecutive_validated + 1
             ELSE /\ consecutive_validated' = 0
                  /\ current_streak' = 0
                  /\ consecutive_rejected' = consecutive_rejected + 1
       ]_vars

\* a rejection has ended a streak of two validations: the longest streak
\* stays at 2 while the current one is back at 0
C32_Witness ==
    /\ call.op = "record_validation"
    /\ call.arg[2] = FALSE
    /\ consecutive_rejected = 1
    /\ consecutive_validated = 0
    /\ current_streak = 0
    /\ longest_validated_streak = 2

----------------------------------------------------------------------------
(* C33: idle_seconds is non-zero only while the timer is in PAUSED or
   COGNITIVE_CHECK: in STOPPED, RUNNING and BUFFER idle_seconds = 0 in every
   reachable state; total_seconds is never negative. *)

C33_IdleOnlyWhilePaused ==
    /\ state \in {"STOPPED", "RUNNING", "BUFFER"} => idle_seconds = 0
    /\ total_seconds >= 0

\* stop() was called during a pause that had idle seconds, and they are gone
C33_Witness ==
    /\ call.op = "stop"
    /\ call.from = "PAUSED"
    /\ call.idle > 0
    /\ state = "STOPPED"
    /\ idle_seconds = 0

----------------------------------------------------------------------------
(* C34: idle_seconds <= T_limit*60 holds after every tick, and while the
   timer is PAUSED it keeps holding over every step that does not lower
   T_limit; while it holds, the idle duration of a pulse in PAUSED is
   within 0 .. T_limit*60, at most 1500 seconds, it is what the decision
   source is given, and the pulse does not take the branch that resumes
   without a decision. *)

\* the idle seconds of a pause are within T_limit
IdleWithinLimit ==
    state = "PAUSED" =>
        idle_seconds \in 0..TLimitSeconds(t_limit_minutes)

\* T_limit is lowered while the timer is PAUSED
LimitLowered == state = "PAUSED" /\ t_limit_minutes' < t_limit_minutes

\* the pulse takes the PAUSED branch that discards and resumes silently
BeyondLimitTaken ==
    /\ PulseStep
    /\ state = "PAUSED"
    /\ state' = "RUNNING"
    /\ AutoDecidedIn(signals') = <<>>

C34_IdleWithinLimit ==
    [][ /\ TickStep => IdleWithinLimit'
        /\ (IdleWithinLimit /\ ~LimitLowered) => IdleWithinLimit'
        /\ (PulseStep /\ state = "PAUSED" /\ IdleWithinLimit) =>
              /\ ~BeyondLimitTaken
              /\ call'.idle = idle_seconds
              /\ call'.idle \in 0..1500
              /\ \A i \in 1..Len(RequestsIn(signals')) :
                    RequestsIn(signals')[i].idle = idle_seconds
              /\ \A i \in 1..Len(AutoDecidedIn(signals')) :
                    AutoDecidedIn(signals')[i].seconds = idle_seconds
              /\ RequestsIn(signals') \o AutoDecidedIn(signals') # <<>>
      ]_vars

\* the tick after idle_seconds reached T_limit*60 set it back to 0
C34_Witness ==
    /\ call.op = "_on_tick"
    /\ call.from = "PAUSED"
    /\ call.idle = TLimitSeconds(t_limit_minutes)
    /\ state = "PAUSED"
    /\ idle_seconds = 0

----------------------------------------------------------------------------
(* C35: starting from an empty profile, after every record_validation call
   the sum of all bucket total_counts is at most 49, however many samples
   are recorded, while every call adds one to the sum of the global
   validation and rejection counters, which equals the number of calls. *)

C35_SamplesCapped ==
    /\ TotalSamples(buckets) <= 49
    /\ total_validations + total_rejections = ops

\* more than 50 samples were recorded and the buckets hold fewer than 50
C35_Witness ==
    /\ call.op = "record_validation"
    /\ total_validations + total_rejections = 56
    /\ TotalSamples(buckets) <= 49

----------------------------------------------------------------------------
(* C36: for a bucket whose samples were all rejected (validated_count = 0,
   total_count >= 1) the Wilson-bound confidence is 0, so the base
   confidence that calculate_confidence uses for a duration in that bucket
   is the all-time global validation rate, whatever the number of
   rejections in the bucket.  The fixed-point arithmetic of this module
   rounds every product and quotient down to 1/Scale, so "is" reads
   "differs by at most 2/Scale". *)

AllRejected(b) == b.validated_count = 0 /\ b.total_count >= 1

Distance(a, b) == IF a < b THEN b - a ELSE a - b

C36_RejectedBucketUsesGlobal ==
    [][ call'.op = "calculate_confidence" =>
          LET b == buckets[BucketKey(call'.arg[1])]
          IN  AllRejected(b) =>
                /\ BucketConfidence(b) <= 2
                /\ Distance(BaseConfidence(b, total_validations,
                                           total_rejections),
                            GlobalRate(total_validations, total_rejections))
                      <= 2 ]_vars

\* calculate_confidence was asked about a long pause after 25 validated
\* short pauses and 20 rejected long ones
C36_Witness ==
    /\ call.op = "calculate_confidence"
    /\ call.arg[1] = 2000
    /\ buckets["1500-3600"] = [total_count |-> 20, validated_count |-> 0]
    /\ total_validations = 25
    /\ total_rejections = 20

----------------------------------------------------------------------------

\* the step before was a run of stop() or reset()
AfterStopOrReset == call.op \in {"stop", "reset"}

(* C38: stop() and reset() invalidate any pending undo: an
   undo_last_auto_decision() that follows either call returns None and
   leaves total unchanged, so that total stays 0 after reset() until a tick
   or an accepted idle period adds to it. *)
C38_StopInvalidatesUndo ==
    [][ (UndoStep /\ AfterStopOrReset) =>
            /\ call'.ret = None
            /\ total_seconds' = total_seconds ]_vars

----------------------------------------------------------------------------
(* C37: a pulse that arrives more than 300 seconds after the start of the
   last activity window leaves no stored burst: record_activity, which runs
   before the timer queries the profile, prunes every burst including the
   one it has just appended, so the confidence of that decision and the
   pause it records are computed from the default pre-pause intensity 0.5,
   whatever bursts were stored before the pause. *)

\* the step is a pulse more than 300 seconds after the pulse before it; the
\* window began at that pulse or earlier
LatePulse ==
    /\ call'.op \in {"_on_activity", "on_activity_detected"}
    /\ last_activity_time # 0
    /\ last_activity_time' - last_activity_time > 300

\* the confidences calculate_confidence gives for the pending idle seconds
\* when no burst is stored
DefaultIntensityConfidences ==
    {FinalConfidenceFrom(<<>>, idle_seconds, current_file_hash,
                         IF session_started THEN session_age ELSE 0, hour) :
         session_age \in SessionAges, hour \in Hours}

C37_LatePulsePrunes ==
    [][ LatePulse =>
            /\ activity_bursts' = <<>>
            /\ PrePauseIntensity(activity_bursts') = Scale \div 2
            /\ RequestsIn(signals') \o AutoDecidedIn(signals') # <<>> =>
                   call'.confidence \in DefaultIntensityConfidences
            /\ AutoDecidedIn(signals') # <<>> =>
                   recent_pauses'[Len(recent_pauses')].pre_pause_intensity
                       = Scale \div 2 ]_vars

\* a pulse has ended a pause of more than 300 seconds with a decision, and
\* no burst is stored
C37_Witness ==
    /\ call.op = "on_activity_detected"
    /\ call.from = "PAUSED"
    /\ call.idle > 300
    /\ call.decision # ""
    /\ ops = 1
    /\ activity_bursts = <<>>
    /\ state \in {"RUNNING", "COGNITIVE_CHECK"}

----------------------------------------------------------------------------
(* C39: every learning update and T_limit nudge caused by a user response
   corresponds to a decision request pending in the timer: the extension's
   response handler runs its record_validation and adjust_t_limit only while
   the timer is in COGNITIVE_CHECK, and the duration it records is the idle
   seconds of that request. *)

\* the step is a run of the extension's _on_cognitive_response
DialogAnswered == call'.op = "_on_cognitive_response"

C39_ResponsesMatchRequests ==
    [][ DialogAnswered =>
            /\ state = "COGNITIVE_CHECK"
            /\ recent_pauses'[Len(recent_pauses')].duration_seconds
                   = idle_seconds ]_vars

----------------------------------------------------------------------------
(* C40: idle time is credited only to the document that was active while it
   accrued: when the document check switches the active document while the
   timer is in PAUSED or COGNITIVE_CHECK, the idle seconds pending from the
   previous document are dropped, so that the pulse or the response that
   follows the switch adds nothing to the new document's total, sets no
   undo slot for it and records no pause under its project key. *)

\* the step before was a document check that replaced the tracked document
\* while idle seconds were pending
SwitchedWhileIdle ==
    /\ call.op = "_check_document"
    /\ call.from \in {"PAUSED", "COGNITIVE_CHECK"}
    /\ call.idle > 0
    /\ current_doc_id

\* the step is a pulse or a dialog response
PulseOrResponse ==
    call'.op \in {"on_activity_detected", "_on_cognitive_response"}

C40_IdleStaysWithDocument ==
    [][ (SwitchedWhileIdle /\ PulseOrResponse) =>
            /\ total_seconds' = total_seconds
            /\ last_auto_decision' = last_auto_decision
            /\ recent_pauses' = recent_pauses ]_vars

=============================================================================
